---- MODULE Spec2Model ----
(***************************************************************************)
(* A model of the geokb link-mapping builder (scripts/build_link_mapping.py),*)
(* of its consumer, the broken-links filter                                  *)
(* (scripts/find_broken_links_geography.py), of the note maker               *)
(* (scripts/create_note.py) and of the dispatcher (kb.py).                   *)
(*                                                                           *)
(* The note directory SRC_DIR is a map from file names to note files; the   *)
(* two builder artifacts and the filter's report are files of SYSTEM_DIR.    *)
(* A Python dict is a sequence of <<key, value>> pairs with distinct keys,   *)
(* in insertion order; a Python list is a sequence; a Python set is a set.   *)
(***************************************************************************)
EXTENDS Integers, Sequences, FiniteSets, TLC

VARIABLES
    srcDir,           \* SRC_DIR: file name -> note file (or no file)
    globOrder,        \* the order in which SRC_DIR.glob("*.md") yields the files
    linkMappingJson,  \* SYSTEM_DIR/LINK_MAPPING.json
    linkMappingMd,    \* SYSTEM_DIR/LINK_MAPPING.md
    lastScan,         \* history: the latest scan_notes call, its inputs and result
    filterRun,        \* history: the latest run of the broken-links filter
    brokenReport,     \* SYSTEM_DIR/GEOGRAPHY_BROKEN_LINKS.md
    edits,            \* number of changes made to SRC_DIR so far
    srcDirExists,     \* SRC_DIR.exists()
    builderOut,       \* the latest run of the builder: exit status and stdout
    folder,           \* the folder create_note.py writes notes to
    createOut,        \* the latest run of create_note.py
    kb,               \* a run of the dispatcher kb.py
    poorOut,          \* the latest run of the poor-content finder
    poorReport        \* SYSTEM_DIR/GEOGRAPHY_POOR_CONTENT.md

vars == <<srcDir, globOrder, linkMappingJson, linkMappingMd, lastScan,
          filterRun, brokenReport, edits, srcDirExists, builderOut,
          folder, createOut, kb, poorOut, poorReport>>

\* the variables of the link mapping, which create_note.py and kb.py leave alone
linkVars == <<srcDir, globOrder, linkMappingJson, linkMappingMd, lastScan,
              filterRun, brokenReport, edits, srcDirExists, builderOut>>

----------------------------------------------------------------------------
(* Bounds of the model *)

\* the most link mentions the notes of a scanned directory hold in all
MaxLinks == 3

\* the most changes (a note created, edited or deleted) made to SRC_DIR in a
\* behaviour
MaxEdits == 2

\* the most pieces a title line holds after "title: "
MaxValueLen == 5

\* the most runs of create_note.py in a behaviour
MaxCreates == 2

\* the most lines the text of a note holds after its front part
MaxBodyLines == 5

----------------------------------------------------------------------------
(* The universe of names and texts *)

\* the *.md file names that may be present in SRC_DIR
FileNames == {"A.md", "b.md"}

\* the front-matter titles a note may declare
Titles == {"Alpha", "Beta"}

\* the markdown links a note body may hold, as (display text, path segments):
\* [A](./b.md)  [B](b.md)  [A](notes/c.md)
RawLinks == { <<"A", <<".", "b.md">> >>, <<"B", <<"b.md">> >>,
              <<"A", <<"notes", "c.md">> >> }

\* the per-process salts of str hashing, which decide the order in which a
\* set of str is iterated
HashSeeds == {0, 1}

\* every string the model compares with <, in code-point order
StrOrder == <<"A", "A.md", "Alpha", "B", "Beta", "b.md", "c.md">>

----------------------------------------------------------------------------
(* Python built-ins *)

StrIndex(s) == CHOOSE i \in 1..Len(StrOrder) : StrOrder[i] = s

\* str.__lt__
StrLess(a, b) == StrIndex(a) < StrIndex(b)

Range(s) == {s[i] : i \in DOMAIN s}

SeqsUpTo(S, n) == UNION {[1..k -> S] : k \in 0..n}

\* the orders in which the elements of a finite set can be enumerated
Perms(S) == {p \in [1..Cardinality(S) -> S] : Range(p) = S}

\* k in d
DictHas(d, k) == \E i \in DOMAIN d : d[i][1] = k

DictIndex(d, k) == CHOOSE i \in DOMAIN d : d[i][1] = k

\* d.get(k, default)
DictGet(d, k, default) == IF DictHas(d, k) THEN d[DictIndex(d, k)][2] ELSE default

\* d[k] = v
DictSet(d, k, v) ==
    IF DictHas(d, k) THEN [d EXCEPT ![DictIndex(d, k)] = <<k, v>>]
    ELSE Append(d, <<k, v>>)

\* d.keys() as a set
DictKeys(d) == {d[i][1] : i \in DOMAIN d}

\* d.values() as a list
DictValues(d) == [i \in DOMAIN d |-> d[i][2]]

\* sum(l)
RECURSIVE Sum(_)
Sum(l) == IF l = <<>> THEN 0 ELSE Head(l) + Sum(Tail(l))

\* the sort key: the item itself, or item[0] for key=lambda x: x[0]
SortKey(x, byFirst) == IF byFirst THEN x[1] ELSE x

\* insertion of x into a sorted list, after the elements not greater than x
RECURSIVE InsertSorted(_, _, _)
InsertSorted(l, x, byFirst) ==
    IF l = <<>> THEN <<x>>
    ELSE IF StrLess(SortKey(x, byFirst), SortKey(Head(l), byFirst)) THEN <<x>> \o l
    ELSE <<Head(l)>> \o InsertSorted(Tail(l), x, byFirst)

\* sorted(l), or sorted(l, key=lambda x: x[0]): ascending and stable
RECURSIVE Sorted(_, _)
Sorted(l, byFirst) ==
    IF l = <<>> THEN <<>>
    ELSE InsertSorted(Sorted(SubSeq(l, 1, Len(l) - 1), byFirst), l[Len(l)], byFirst)

\* list(s) for a set s of str: the iteration order follows the hash salt
ListOfSet(s, seed) ==
    CHOOSE p \in Perms(s) :
        \A i, j \in DOMAIN p :
            i < j => IF seed = 0 THEN StrLess(p[i], p[j]) ELSE StrLess(p[j], p[i])

\* the distinct elements of l in ascending order
SortedUnique(l) == Sorted(ListOfSet(Range(l), 0), FALSE)

\* list(dict.fromkeys(l)): the distinct elements, in order of first occurrence
RECURSIVE FromKeys(_)
FromKeys(l) ==
    IF l = <<>> THEN <<>>
    ELSE LET front == FromKeys(SubSeq(l, 1, Len(l) - 1))
             last  == l[Len(l)]
         IN  IF last \in Range(front) THEN front ELSE Append(front, last)

\* the concatenation of a list of lists
RECURSIVE Concat(_)
Concat(ss) == IF ss = <<>> THEN <<>> ELSE Head(ss) \o Concat(Tail(ss))

----------------------------------------------------------------------------
(* str: a text is the sequence of its pieces, a piece being a stretch of
   characters that no operation of the code cuts: the delimiter "---", a line
   break, a space, a colon, a quote character, a word *)

\* the characters str.strip() removes
Whitespace == {" ", "\n"}

\* the str a text is
RECURSIVE Join(_)
Join(text) == IF text = <<>> THEN "" ELSE Head(text) \o Join(Tail(text))

\* s.startswith(piece)
StartsWith(text, piece) == text # <<>> /\ Head(text) = piece

\* piece in s
Contains(text, piece) == piece \in Range(text)

\* where text first holds piece
Find(text, piece) ==
    CHOOSE i \in DOMAIN text : text[i] = piece /\ \A j \in 1..(i - 1) : text[j] # piece

\* s.split(sep, maxsplit)
RECURSIVE Split(_, _, _)
Split(text, sep, maxsplit) ==
    IF maxsplit = 0 \/ ~Contains(text, sep) THEN <<text>>
    ELSE <<SubSeq(text, 1, Find(text, sep) - 1)>>
         \o Split(SubSeq(text, Find(text, sep) + 1, Len(text)), sep, maxsplit - 1)

\* s.split(sep)
SplitAll(text, sep) == Split(text, sep, Len(text))

\* s.lstrip(chars)
RECURSIVE LStrip(_, _)
LStrip(text, chars) ==
    IF text # <<>> /\ Head(text) \in chars THEN LStrip(Tail(text), chars) ELSE text

\* s.rstrip(chars)
RECURSIVE RStrip(_, _)
RStrip(text, chars) ==
    IF text # <<>> /\ text[Len(text)] \in chars
    THEN RStrip(SubSeq(text, 1, Len(text) - 1), chars) ELSE text

\* s.strip(chars)
Strip(text, chars) == RStrip(LStrip(text, chars), chars)

----------------------------------------------------------------------------
(* Files *)

\* a name of SRC_DIR under which there is no file
NoFile == [exists |-> FALSE, readable |-> FALSE, head |-> <<>>, links |-> <<>>]

\* a front-matter block of the given lines, closed, and the line break after it
Block(lines) ==
    <<"---", "\n">> \o Concat([i \in DOMAIN lines |-> lines[i] \o <<"\n">>])
    \o <<"---", "\n">>

\* the line that declares a title, written as the words after "title: "
TitleLine(value) == <<"title", ":", " ">> \o value

\* a note head with no front-matter block
NoHead == <<>>

\* the head that declares title t: Alpha is written bare, Beta between double
\* quotes, and the empty title as a line "title: "
TitledHead(t) ==
    Block(<< TitleLine(CASE t = "" -> <<>>
                         [] t = "Beta" -> <<"\"", t, "\"">>
                         [] OTHER -> <<t>>) >>)

\* the heads of the notes of a directory: no front matter, a title, an empty
\* title
Heads == {NoHead} \cup {TitledHead(t) : t \in Titles \cup {""}}

\* the pieces a title line may hold after "title: "
ValuePieces == {" ", "\"", "'", ":", "X"}

\* the heads that hold one title line with the given value: alone in a closed
\* block; after another line of a closed block; in a block that is never
\* closed; outside any block
TitleHeads(value) ==
    { Block(<< TitleLine(value) >>),
      Block(<< <<"type", ":", " ", "Evergreen">>, TitleLine(value) >>),
      <<"---", "\n">> \o TitleLine(value) \o <<"\n">>,
      TitleLine(value) \o <<"\n">> }

\* a note file: open() succeeds or raises; its content is a head, the text up
\* to the body, and a body holding markdown links in source order
NoteFile(readable, head, links) ==
    [exists |-> TRUE, readable |-> readable, head |-> head, links |-> links]

\* a file of SYSTEM_DIR that was never written
Absent == [exists |-> FALSE, data |-> <<>>]

\* a file of SYSTEM_DIR holding data
Written(data) == [exists |-> TRUE, data |-> data]

\* how `with open(path, "w") as f:` and the write in it end: the data is
\* written; open() raises; or the write raises after open() has truncated the
\* file, `kept` items of the data having reached it
WriteOk == [raises |-> "none", kept |-> 0]
OpenRaises == [raises |-> "open", kept |-> 0]
WriteRaises(n) == [raises |-> "write", kept |-> n]

----------------------------------------------------------------------------
(* build_link_mapping.py *)

\* the loop over the lines of yaml_content
RECURSIVE FrontmatterLines(_, _)
FrontmatterLines(frontmatter, lines) ==
    IF lines = <<>> THEN frontmatter
    ELSE LET line  == Head(lines)
             key   == Split(line, ":", 1)[1]
             value == Split(line, ":", 1)[2]
         IN  FrontmatterLines(
                 IF Contains(line, ":")
                 THEN DictSet(frontmatter, Join(Strip(key, Whitespace)),
                              Join(Strip(Strip(Strip(value, Whitespace), {"\""}), {"'"})))
                 ELSE frontmatter,
                 Tail(lines))

\* extract_yaml_frontmatter(content)
ExtractYamlFrontmatter(content) ==
    IF ~StartsWith(content, "---") THEN <<>>
    ELSE LET parts == Split(content, "---", 2)
         IN  IF Len(parts) >= 3
             THEN FrontmatterLines(<<>>, SplitAll(Strip(parts[2], Whitespace), "\n"))
             ELSE <<>>

\* the regex's optional leading "./" is outside the captured path
StripDotSlash(path) == IF Len(path) > 1 /\ path[1] = "." THEN Tail(path) ELSE path

\* os.path.basename(file_path)
Basename(path) == path[Len(path)]

\* re.search in place of re.finditer: the first link only
ExtractFirstLink(note) ==
    IF note.links = <<>> THEN <<>>
    ELSE << <<note.links[1][1], Basename(StripDotSlash(note.links[1][2]))>> >>

\* extract_links(content): the (link text, file name) pairs in source order
ExtractLinks(note) ==
    [i \in DOMAIN note.links |->
        <<note.links[i][1], Basename(StripDotSlash(note.links[i][2]))>>]

\* the accumulators of scan_notes as they are created
NewAccumulators ==
    [existing_notes |-> <<>>, all_links |-> <<>>, broken_links |-> <<>>,
     files_linking_to |-> <<>>]

\* os.listdir(SRC_DIR) with no exists() test before it: a missing directory
\* raises
ListDirUnguarded(exists, order) == [raised |-> ~exists, files |-> order]

\* `if SRC_DIR.exists(): for file_path in SRC_DIR.glob("*.md")`: the files in
\* the order the file system yields them, none when the directory is missing;
\* neither the test nor the glob raises
GlobMd(exists, order) == [raised |-> FALSE, files |-> IF exists THEN order ELSE <<>>]

\* scan_notes did not return: an exception left it
ScanRaised == [raised |-> TRUE]

\* only the files that can be read count as existing
ExistingFilesReadable(dir, order) == {f \in Range(order) : dir[f].readable}

\* the first glob: existing_files
ExistingFiles(dir, order) == Range(order)

\* d[k].append(x) on a defaultdict(list)
RecordText(d, k, x) == DictSet(d, k, Append(DictGet(d, k, <<>>), x))

\* d[k] = {x}: the set is replaced, not extended
RecordSourceOverwrite(d, k, x) == DictSet(d, k, {x})

\* d[k].add(x) on a defaultdict(set)
RecordSource(d, k, x) == DictSet(d, k, DictGet(d, k, {}) \cup {x})

\* the target is looked up among the titles of existing_notes, never file names
IsBrokenByTitle(linked_filename, existing_files) == TRUE

\* linked_filename not in existing_files
IsBroken(linked_filename, existing_files) == linked_filename \notin existing_files

\* the body of the loop over one file's links
AddLink(acc, link, filename, existing_files) ==
    LET link_text       == link[1]
        linked_filename == link[2]
    IN  [acc EXCEPT
            !.all_links = RecordText(@, linked_filename, link_text),
            !.files_linking_to = RecordSource(@, linked_filename, filename),
            !.broken_links = IF IsBroken(linked_filename, existing_files)
                             THEN RecordText(@, linked_filename, link_text)
                             ELSE @]

RECURSIVE AddLinks(_, _, _, _)
AddLinks(acc, links, filename, existing_files) ==
    IF links = <<>> THEN acc
    ELSE AddLinks(AddLink(acc, Head(links), filename, existing_files),
                  Tail(links), filename, existing_files)

\* existing_notes.setdefault(title, filename): the first note declaring a
\* title keeps it
RecordTitleOnce(existing_notes, title, filename) ==
    IF title # "" /\ ~DictHas(existing_notes, title)
    THEN DictSet(existing_notes, title, filename)
    ELSE existing_notes

\* if title: existing_notes[title] = filename
RecordTitle(existing_notes, title, filename) ==
    IF title # "" THEN DictSet(existing_notes, title, filename) ELSE existing_notes

\* the loop body for a file that was read
ScanFile(acc, note, filename, existing_files) ==
    LET frontmatter == ExtractYamlFrontmatter(note.head)
        title       == DictGet(frontmatter, "title", "")
        titled      == [acc EXCEPT !.existing_notes = RecordTitle(@, title, filename)]
    IN  AddLinks(titled, ExtractLinks(note), filename, existing_files)

\* break: the loop ends at the first file that cannot be read
BreakOnReadError(rest) == <<>>

\* the files still to visit after open() or read() raised: continue
AfterReadError(rest) == rest

\* the loop over the second glob
RECURSIVE ScanLoop(_, _, _, _)
ScanLoop(acc, dir, order, existing_files) ==
    IF order = <<>> THEN acc
    ELSE IF ~dir[Head(order)].readable
         THEN ScanLoop(acc, dir, AfterReadError(Tail(order)), existing_files)
         ELSE ScanLoop(ScanFile(acc, dir[Head(order)], Head(order), existing_files),
                       dir, Tail(order), existing_files)

\* the first text alone is kept for every key of d
DedupToFirst(d) == [i \in DOMAIN d |-> <<d[i][1], <<d[i][2][1]>> >>]

\* list(dict.fromkeys(d[key])) for every key of d
DedupValues(d) == [i \in DOMAIN d |-> <<d[i][1], FromKeys(d[i][2])>>]

\* list(value)
UnsortedList(value, seed) == ListOfSet(value, seed)

\* sorted(list(value))
SortedList(value, seed) == Sorted(ListOfSet(value, seed), FALSE)

\* files_linking_to_serializable
FilesLinkingToSerializable(d, seed) ==
    [i \in DOMAIN d |-> <<d[i][1], SortedList(d[i][2], seed)>>]

\* scan_notes() up to the end of its loop, for the directory as the two
\* globs see it
ScanAccumulate(start, exists, dir, order) ==
    LET listing == GlobMd(exists, order)
    IN  IF listing.raised THEN ScanRaised
        ELSE ScanLoop(start, dir, listing.files, ExistingFiles(dir, listing.files))

\* scan_notes() after its loop: the four maps returned
ScanReturn(acc, seed) ==
    [existing_notes   |-> acc.existing_notes,
     all_links        |-> DedupValues(acc.all_links),
     broken_links     |-> DedupValues(acc.broken_links),
     files_linking_to |-> FilesLinkingToSerializable(acc.files_linking_to, seed)]


\* the broken mentions counted over all_links
StatisticsOfAllLinks(existing_notes, all_links, broken_links) ==
    << <<"total_existing_notes", Len(existing_notes)>>,
       <<"total_linked_files", Len(all_links)>>,
       <<"total_broken_links", Len(broken_links)>>,
       <<"total_broken_link_mentions",
         Sum([i \in DOMAIN all_links |-> Len(all_links[i][2])])>> >>

\* the "statistics" member of the JSON mapping
Statistics(existing_notes, all_links, broken_links) ==
    << <<"total_existing_notes", Len(existing_notes)>>,
       <<"total_linked_files", Len(all_links)>>,
       <<"total_broken_links", Len(broken_links)>>,
       <<"total_broken_link_mentions",
         Sum([i \in DOMAIN broken_links |-> Len(broken_links[i][2])])>> >>

\* generate_json_mapping(existing_notes, all_links, broken_links, files_linking_to)
GenerateJsonMapping(g) ==
    << <<"existing_notes", g.existing_notes>>,
       <<"broken_links", g.broken_links>>,
       <<"all_links", g.all_links>>,
       <<"files_linking_to", g.files_linking_to>>,
       <<"statistics", Statistics(g.existing_notes, g.all_links, g.broken_links)>> >>

----------------------------------------------------------------------------
(* json: the text of a document is its sequence of tokens *)

Tok(t) == [t |-> t]
Val(t, v) == [t |-> t, v |-> v]

\* a list of str
DumpStrList(l) == <<Tok("[")>> \o [i \in DOMAIN l |-> Val("str", l[i])] \o <<Tok("]")>>

\* an object whose values are str ("str"), int ("num") or lists of str ("list")
DumpObject(d, kind) ==
    <<Tok("{")>>
    \o Concat([i \in DOMAIN d |->
                 <<Val("key", d[i][1])>>
                 \o (IF kind = "list" THEN DumpStrList(d[i][2])
                     ELSE <<Val(kind, d[i][2])>>)])
    \o <<Tok("}")>>

\* json.dump(json_mapping, f, ensure_ascii=False, indent=2)
JsonDump(mapping) ==
    <<Tok("{")>>
    \o Concat([i \in DOMAIN mapping |->
                 <<Val("key", mapping[i][1])>>
                 \o DumpObject(mapping[i][2],
                               CASE mapping[i][1] = "existing_notes" -> "str"
                                 [] mapping[i][1] = "statistics" -> "num"
                                 [] OTHER -> "list")])
    \o <<Tok("}")>>

\* json.load(f): a recursive-descent parse; each parser yields <<value, rest>>
RECURSIVE ParseValue(_), ParseElements(_, _), ParseMembers(_, _)
ParseValue(toks) ==
    CASE Head(toks).t \in {"str", "num"} -> <<Head(toks).v, Tail(toks)>>
      [] Head(toks).t = "[" -> ParseElements(<<>>, Tail(toks))
      [] Head(toks).t = "{" -> ParseMembers(<<>>, Tail(toks))

ParseElements(list, toks) ==
    IF Head(toks).t = "]" THEN <<list, Tail(toks)>>
    ELSE LET e == ParseValue(toks)
         IN  ParseElements(Append(list, e[1]), e[2])

ParseMembers(dict, toks) ==
    IF Head(toks).t = "}" THEN <<dict, Tail(toks)>>
    ELSE LET m == ParseValue(Tail(toks))
         IN  ParseMembers(DictSet(dict, Head(toks).v, m[1]), m[2])

JsonLoad(text) == ParseValue(text)[1]

\* the maps of the artifact an earlier run left are loaded and extended
CarriedAccumulators(artifact) ==
    IF ~artifact.exists THEN NewAccumulators
    ELSE LET data == JsonLoad(artifact.data)
             ftl  == DictGet(data, "files_linking_to", <<>>)
         IN  [existing_notes   |-> DictGet(data, "existing_notes", <<>>),
              all_links        |-> DictGet(data, "all_links", <<>>),
              broken_links     |-> DictGet(data, "broken_links", <<>>),
              files_linking_to |-> [i \in DOMAIN ftl |-> <<ftl[i][1], Range(ftl[i][2])>>]]

\* the accumulators a run starts from, whatever artifact an earlier run left
InitialAccumulators(artifact) == NewAccumulators

----------------------------------------------------------------------------
(* The Markdown mapping: a document is its sequence of lines; a table row is
   the tuple of the values formatted into it *)

\* the number of display texts a row of the broken-links table shows
MaxShownTexts == 5

\* l[:n]
Take(l, n) == SubSeq(l, 1, IF Len(l) < n THEN Len(l) ELSE n)

\* the status tells that the count is not negative
NoteRowNeverAlone(item, all_links, files_linking_to) ==
    LET link_count  == Len(DictGet(all_links, item[2], <<>>))
        files_count == Len(DictGet(files_linking_to, item[2], <<>>))
        status      == IF link_count >= 0 THEN "[OK]" ELSE "[!]"
    IN  <<"note", item[1], item[2], link_count, status, files_count>>

\* a row of the "existing notes" table
NoteRow(item, all_links, files_linking_to) ==
    LET title       == item[1]
        filename    == item[2]
        link_count  == Len(DictGet(all_links, filename, <<>>))
        files_count == Len(DictGet(files_linking_to, filename, <<>>))
        status      == IF link_count > 0 THEN "[OK]" ELSE "[!]"
    IN  <<"note", title, filename, link_count, status, files_count>>

\* a row of the "broken links" table
BrokenRow(item) ==
    LET unique_texts == FromKeys(item[2])
    IN  <<"broken", item[1], Take(unique_texts, MaxShownTexts),
          IF Len(unique_texts) > MaxShownTexts
          THEN Len(unique_texts) - MaxShownTexts ELSE 0>>

\* generate_markdown_mapping(existing_notes, all_links, broken_links, files_linking_to)
GenerateMarkdownMapping(g) ==
    LET sorted_notes  == Sorted(g.existing_notes, TRUE)
        sorted_broken == Sorted(g.broken_links, TRUE)
    IN  << <<"heading", "existing notes">> >>
        \o [i \in DOMAIN sorted_notes |->
              NoteRow(sorted_notes[i], g.all_links, g.files_linking_to)]
        \o (IF g.broken_links # <<>>
            THEN << <<"heading", "broken links">> >>
                 \o [i \in DOMAIN sorted_broken |-> BrokenRow(sorted_broken[i])]
            ELSE <<>>)
        \o << <<"heading", "statistics">> >>
        \o [i \in 1..4 |->
              <<"count", Statistics(g.existing_notes, g.all_links, g.broken_links)[i][2]>>]

----------------------------------------------------------------------------
(* find_broken_links_geography.py *)

\* every entry of broken_links is kept, whatever SRC_DIR holds
KeepBroken(result, items, existing_files) == items

\* the filter loop of find_broken_links_geography
RECURSIVE FilterBroken(_, _, _)
FilterBroken(result, items, existing_files) ==
    IF items = <<>> THEN result
    ELSE FilterBroken(IF Head(items)[1] \notin existing_files
                      THEN DictSet(result, Head(items)[1], Head(items)[2])
                      ELSE result,
                      Tail(items), existing_files)

\* the second glob of the repository: existing_files of the filter
CurrentFiles(dir, order) == Range(order)

\* find_broken_links_geography(), LINK_MAPPING.json being present
FindBrokenLinksGeography(text, existing_files) ==
    LET data == JsonLoad(text)
    IN  FilterBroken(<<>>, DictGet(data, "broken_links", <<>>), existing_files)

\* the broken targets are counted, not their display texts
TotalMentionsPerTarget(broken) == Len(broken)

\* total_mentions
TotalMentions(broken) == Sum([i \in DOMAIN broken |-> Len(broken[i][2])])

\* insertion by len(x[1]), descending, equal counts keeping their order
RECURSIVE InsertByCount(_, _)
InsertByCount(l, x) ==
    IF l = <<>> THEN <<x>>
    ELSE IF Len(x[2]) > Len(Head(l)[2]) THEN <<x>> \o l
    ELSE <<Head(l)>> \o InsertByCount(Tail(l), x)

\* sorted(items, key=lambda x: len(x[1]), reverse=True)
RECURSIVE SortedByCount(_)
SortedByCount(l) ==
    IF l = <<>> THEN <<>>
    ELSE InsertByCount(SortedByCount(SubSeq(l, 1, Len(l) - 1)), l[Len(l)])

\* generate_output(broken_links_geography)
GenerateOutput(broken) ==
    LET sorted_broken == SortedByCount(broken)
    IN  << <<"count", Len(broken)>>, <<"count", TotalMentions(broken)>> >>
        \o [i \in DOMAIN sorted_broken |->
              <<"broken", sorted_broken[i][1], Len(sorted_broken[i][2]),
                FromKeys(sorted_broken[i][2])>>]

\* the filter has not run. Of a run: whether it found LINK_MAPPING.json, what
\* find_broken_links_geography returned and the totals main() printed, its
\* exit status and the lines it printed, by what they say; and, as history,
\* the statistics of the artifact it read and whether SRC_DIR was then as the
\* builder run that wrote the artifact had found it
NotRun == [ran |-> FALSE, built |-> FALSE, result |-> <<>>,
           total_links |-> 0, total_mentions |-> 0,
           statistics |-> <<>>, unchanged |-> FALSE, exit |-> 0, stdout |-> <<>>]

\* sys.exit(1) where main() returns: the missing artifact is an error
FilterNotBuiltFails ==
    [NotRun EXCEPT !.ran = TRUE, !.exit = 1,
                   !.stdout = <<"searching", "not_found", "run_builder_first">>]

\* main() when LINK_MAPPING.json is missing: two lines are printed and main()
\* returns
FilterNotBuilt ==
    [NotRun EXCEPT !.ran = TRUE,
                   !.stdout = <<"searching", "not_found", "run_builder_first">>]

----------------------------------------------------------------------------
(* create_note.py: the text of a new note. The source spells the value of
   topic and of category in Russian; it is the word Geography here *)

\* the names notes are created with, and the days get_timestamp() returns
NoteNames == {"russia", "moscow"}
Timestamps == {"20260101", "20260102"}

\* filename = f"{timestamp}_{name}.md"
Filename(timestamp, name) == timestamp \o "_" \o name \o ".md"

\* the files create_note.py may write to its folder
NoteFileNames == {Filename(timestamp, name) : timestamp \in Timestamps, name \in NoteNames}

DEFAULT_TEMPLATE == "template-evergreen"

\* the template names given with -t
TemplateNames == {"template-evergreen", "template-literature", "Template-Project"}

Geography == "Geography"

\* 'topic: Geography' and 'topic:Geography'
TopicFlag == <<"topic", ":", " ", Geography>>
TopicFlagTight == <<"topic", ":", Geography>>

\* a piece ends with a word: a key subtopic ends with topic
EndsWith(piece, word) == piece = word \/ (piece = "subtopic" /\ word = "topic")

\* sub in s, for str: sub may begin inside a word of s
IsIn(sub, text) ==
    \E i \in 1..(Len(text) - Len(sub) + 1) :
        /\ EndsWith(text[i], sub[1])
        /\ \A k \in 2..Len(sub) : text[i + k - 1] = sub[k]

\* word in template_name.lower()
InLower(word, template_name) ==
    \/ word = "literature" /\ template_name = "template-literature"
    \/ word = "project" /\ template_name = "Template-Project"

\* replace_placeholders, for the placeholders of the note name and of the
\* day; the four other date placeholders are replaced likewise, by the time
\* of the run
ReplacePlaceholders(content, name, timestamp) ==
    [i \in DOMAIN content |->
        CASE content[i] = "{{title}}" -> name
          [] content[i] = "{{date:YYYYMMDD}}" -> timestamp
          [] OTHER -> content[i]]

GetDefaultFrontmatter(name, template_name) ==
    LET note_type == IF InLower("literature", template_name) THEN "Literature"
                     ELSE IF InLower("project", template_name) THEN "Project"
                     ELSE "Evergreen"
    IN  Block(<< <<"title", ":", " ", name>>,
                 <<"type", ":", " ", note_type>>,
                 <<"status", ":", " ", "IN PROGRESS">>,
                 <<"category", ":", " ", Geography>>,
                 TopicFlag >>)
        \o <<"\n", "#", " ", name, "\n", "\n">>

\* create_note, lines 150-160: the topic flag is added to the front matter
\* of the text made from a template
EnsureTopic(content) ==
    IF IsIn(TopicFlag, content) \/ IsIn(TopicFlagTight, content) THEN content
    ELSE IF ~StartsWith(content, "---") THEN content
    ELSE LET parts == Split(content, "---", 2)
         IN  IF Len(parts) < 3 THEN content
             ELSE IF IsIn(<<"topic", ":">>, parts[2]) THEN content
             ELSE <<"---">> \o RStrip(parts[2], Whitespace)
                  \o <<"\n">> \o TopicFlag \o <<"\n">>
                  \o <<"---">> \o parts[3]

\* the text create_note writes, and how it came to it
NoteContent(name, template, timestamp, template_file) ==
    IF template # ""
    THEN IF template_file.exists
         THEN [source |-> "template",
               content |-> EnsureTopic(ReplacePlaceholders(template_file.data, name,
                                                           timestamp))]
         ELSE [source |-> "template_not_found",
               content |-> GetDefaultFrontmatter(name, template)]
    ELSE [source |-> "no_template",
          content |-> GetDefaultFrontmatter(name, DEFAULT_TEMPLATE)]

\* the lines templates are made of
TitleField == <<"title", ":", " ", "{{title}}">>
Heading == <<"#", " ", "{{title}}", "\n">>

\* what a file of TEMPLATES_DIR may hold: a front matter without a topic; with
\* a blank line at its end; with a day; with the topic flag, in either
\* spelling; with another topic; with a key subtopic; a front matter that is
\* never closed; no front matter; the flag in the body alone
TemplateFiles ==
    { Block(<< TitleField >>) \o Heading,
      Block(<< TitleField, <<>> >>) \o Heading,
      Block(<< TitleField, <<"created", ":", " ", "{{date:YYYYMMDD}}">> >>) \o Heading,
      Block(<< TitleField, TopicFlag >>) \o Heading,
      Block(<< TitleField, TopicFlagTight >>) \o Heading,
      Block(<< TitleField, <<"topic", ":", " ", "History">> >>) \o Heading,
      Block(<< TitleField, <<"subtopic", ":", " ", "Cities">> >>) \o Heading,
      <<"---", "\n">> \o TitleField \o <<"\n">> \o Heading,
      Heading,
      Block(<< TitleField >>) \o Heading \o TopicFlag \o <<"\n">> }

\* the folder before it is made
NoFolder == [exists |-> FALSE, files |-> [f \in NoteFileNames |-> Absent]]

\* the folder, made and empty
EmptyFolder == [exists |-> TRUE, files |-> [f \in NoteFileNames |-> Absent]]

\* a check that never finds the file
FileNeverExists(dir, filename) == FALSE

\* filepath.exists()
FileExists(dir, filename) == dir.exists /\ dir.files[filename].exists

\* create_note.py was never run
NoCreateRun == [ran |-> FALSE, runs |-> 0, filename |-> "", source |-> "",
                raised |-> "", exit |-> 0, stdout |-> <<>>, stderr |-> <<>>]

\* kb.py was not started
NoKb == [pc |-> "idle", argv |-> <<>>, scripts |-> {}, queue |-> <<>>,
         runs |-> <<>>, exit |-> 0, stdout |-> <<>>]

\* no note was made with create_note.py, and kb.py is not in use
ToolsIdle ==
    /\ folder = NoFolder
    /\ createOut = NoCreateRun
    /\ kb = NoKb

----------------------------------------------------------------------------
(* find_poor_content_geography.py *)

MIN_CONTENT_LINES == 5

\* the path of a link as it is written, its segments joined by /
RECURSIVE PathText(_)
PathText(segments) ==
    IF Len(segments) <= 1 THEN segments
    ELSE <<Head(segments), "/">> \o PathText(Tail(segments))

\* a link of the body, on a line of its own
LinkLine(link) == <<"[", link[1], "]", "(">> \o PathText(link[2]) \o <<")", "\n">>

\* f.read(): the head of the note, then its links
Content(note) == note.head \o Concat([i \in DOMAIN note.links |-> LinkLine(note.links[i])])

\* the loop over the lines: a line --- switches in_frontmatter and is
\* skipped; outside the front matter the lines that are not empty and do not
\* start with # are kept, stripped
RECURSIVE ContentLines(_, _)
ContentLines(lines, in_frontmatter) ==
    IF lines = <<>> THEN <<>>
    ELSE LET stripped == Strip(Head(lines), Whitespace)
         IN  IF stripped = <<"---">>
             THEN ContentLines(Tail(lines), ~in_frontmatter)
             ELSE IF ~in_frontmatter /\ stripped # <<>> /\ ~StartsWith(stripped, "#")
             THEN <<stripped>> \o ContentLines(Tail(lines), in_frontmatter)
             ELSE ContentLines(Tail(lines), in_frontmatter)

\* non_header_lines of a content
NonHeaderLines(content) ==
    SelectSeq(ContentLines(SplitAll(content, "\n"), FALSE),
              LAMBDA l : ~StartsWith(l, "#"))

\* the loop body of find_poor_content_files for a file that was read
PoorFile(poor_content_files, note, filename) ==
    IF ~IsIn(TopicFlag, Content(note)) THEN poor_content_files
    ELSE IF Len(NonHeaderLines(Content(note))) < MIN_CONTENT_LINES
    THEN RecordText(poor_content_files, Len(NonHeaderLines(Content(note))), filename)
    ELSE poor_content_files

\* the loop of find_poor_content_files: a file that cannot be read is passed
\* over
RECURSIVE PoorLoop(_, _, _)
PoorLoop(poor_content_files, dir, order) ==
    IF order = <<>> THEN poor_content_files
    ELSE IF ~dir[Head(order)].readable
         THEN PoorLoop(poor_content_files, dir, Tail(order))
         ELSE PoorLoop(PoorFile(poor_content_files, dir[Head(order)], Head(order)),
                       dir, Tail(order))

\* find_poor_content_files(): number of lines -> files, in the order visited
FindPoorContentFiles(exists, dir, order) ==
    IF ~exists THEN <<>> ELSE PoorLoop(<<>>, dir, order)

\* sum(len(files) for files in poor_content_files.values())
TotalFiles(poor_content_files) ==
    Sum([i \in DOMAIN poor_content_files |-> Len(poor_content_files[i][2])])

\* sorted(poor_content_files.keys())
SortedCounts(poor_content_files) ==
    SelectSeq([i \in 1..MIN_CONTENT_LINES |-> i - 1],
              LAMBDA n : DictHas(poor_content_files, n))

\* the section of the report for one number of lines: its heading, then the
\* files in sorted order
PoorSection(poor_content_files, lines_count) ==
    LET files == Sorted(DictGet(poor_content_files, lines_count, <<>>), FALSE)
        word == IF lines_count = 1 THEN "line" ELSE IF lines_count < 5 THEN "lines_few"
                ELSE "lines_many"
    IN  << <<"section", lines_count, word, Len(files)>> >>
        \o [i \in DOMAIN files |-> <<"file", files[i]>>]

\* generate_output(poor_content_files)
GeneratePoorOutput(poor_content_files) ==
    LET counts == SortedCounts(poor_content_files)
    IN  << <<"title">>, <<"intro", MIN_CONTENT_LINES>>, <<"sorted">>,
           <<"total", TotalFiles(poor_content_files)>> >>
        \o Concat([i \in DOMAIN counts |-> PoorSection(poor_content_files, counts[i])])

\* the finder has not run
NoPoorRun == [ran |-> FALSE, result |-> <<>>, total_files |-> 0, exit |-> 0,
              stdout |-> <<>>]

\* a report of no files, written when nothing is found
PoorReportAlways(report, poor_content_files) ==
    Written(GeneratePoorOutput(poor_content_files))

\* GEOGRAPHY_POOR_CONTENT.md after main(): main returns before the write when
\* nothing is found
PoorReportAfter(report, poor_content_files) ==
    IF TotalFiles(poor_content_files) = 0 THEN report
    ELSE Written(GeneratePoorOutput(poor_content_files))

\* the finder never ran and left no report
FinderIdle ==
    /\ poorOut = NoPoorRun
    /\ poorReport = Absent

----------------------------------------------------------------------------
(* kb.py *)

\* COMMANDS: the script of a command, and whether it is given the arguments
COMMANDS ==
    [command \in {"link-mapping", "poor-content", "broken-links", "create-note", "all"} |->
        CASE command = "link-mapping" ->
               [script |-> "build_link_mapping.py", needs_args |-> FALSE]
          [] command = "poor-content" ->
               [script |-> "find_poor_content_geography.py", needs_args |-> FALSE]
          [] command = "broken-links" ->
               [script |-> "find_broken_links_geography.py", needs_args |-> FALSE]
          [] command = "create-note" ->
               [script |-> "create_note.py", needs_args |-> TRUE]
          [] OTHER -> [script |-> "", needs_args |-> FALSE]]

\* scripts_order of the command all
scripts_order ==
    << <<"link-mapping", "build_link_mapping.py">>,
       <<"poor-content", "find_poor_content_geography.py">>,
       <<"broken-links", "find_broken_links_geography.py">> >>

\* the files SCRIPT_DIR may hold
ScriptNames == {COMMANDS[command].script : command \in DOMAIN COMMANDS \ {"all"}}

\* the arguments kb.py is started with, sys.argv[1:]
Argvs == { <<>>, <<"bogus">>, <<"link-mapping">>, <<"poor-content">>, <<"broken-links">>,
           <<"create-note">>, <<"create-note", "-n", "russia">>, <<"all">>, <<"ALL">> }

\* s.lower()
Lower(s) == IF s = "ALL" THEN "all" ELSE s

\* the return codes subprocess.run may report for a script the model does
\* not follow: an exit code, or minus the number of the signal that ended it
ReturnCodes == {0, 1, 2, -9}

\* the exit status of a process that calls sys.exit(code)
ExitStatus(code) == code % 256

\* kb.py, started with argv while SCRIPT_DIR holds the given scripts
KbStarted(argv, scripts) ==
    [pc |-> "start", argv |-> argv, scripts |-> scripts, queue |-> <<>>,
     runs |-> <<>>, exit |-> 0, stdout |-> <<>>]

\* sys.exit(code) in main()
KbExit(k, code, said) ==
    [k EXCEPT !.pc = "exited", !.exit = ExitStatus(code), !.queue = <<>>,
              !.stdout = @ \o said]

\* main(), a loop that goes on whatever run_script returned
ReturnedUnchecked(k, result, started) ==
    LET after == [k EXCEPT !.runs = Append(@, [script |-> Head(k.queue),
                                               result |-> result,
                                               started |-> started]),
                           !.queue = Tail(@)]
    IN  IF after.queue = <<>> THEN KbExit(after, 0, <<"all_ok">>) ELSE after

\* main(), once run_script has returned result for the script at the head of
\* the queue: a non-zero result ends kb.py with that code; after the last
\* script main() returns
Returned(k, result, started) ==
    LET all == Lower(k.argv[1]) = "all"
        after == [k EXCEPT !.runs = Append(@, [script |-> Head(k.queue),
                                               result |-> result,
                                               started |-> started]),
                           !.queue = Tail(@),
                           !.stdout = @ \o (IF started THEN <<>> ELSE <<"not_found">>)]
    IN  IF result # 0
        THEN KbExit(after, result, IF all THEN <<"error_code">> ELSE <<>>)
        ELSE IF after.queue = <<>>
             THEN KbExit(after, 0, IF all THEN <<"all_ok">> ELSE <<>>)
             ELSE after

----------------------------------------------------------------------------
(* The state machine *)

\* with open(path, "w") as f: the file after the block, for an outcome
WriteFile(file, data, outcome) ==
    CASE outcome.raises = "none"  -> Written(data)
      [] outcome.raises = "open"  -> file
      [] outcome.raises = "write" -> Written(Take(data, outcome.kept))

\* the builder has not run. Of a run: its exit status and the lines it
\* printed, by what they report
NoBuilderRun == [ran |-> FALSE, exit |-> 0, stdout |-> <<>>]

\* no scan has been made. Of a scan: the directory and the glob order it saw,
\* the four maps it returned; and, as history, whether the run before it saw
\* the same directory, and the broken targets of the artifact it overwrote
NoScan == [ran |-> FALSE, dir |-> [f \in FileNames |-> NoFile], order |-> <<>>,
           graph |-> NewAccumulators, rerun |-> FALSE, broken_before |-> {}]

\* the text is a whole JSON document, not one cut short by a failed write
IsWhole(text) == Len(text) >= 2 /\ text[Len(text)] = Tok("}")

\* the broken targets an artifact lists
BrokenTargets(artifact) ==
    IF artifact.exists /\ IsWhole(artifact.data)
    THEN DictKeys(DictGet(JsonLoad(artifact.data), "broken_links", <<>>))
    ELSE {}

\* the files present in a directory
Present(dir) == {f \in FileNames : dir[f].exists}

\* an empty SRC_DIR, nothing built
Init ==
    /\ srcDir = [f \in FileNames |-> NoFile]
    /\ globOrder = <<>>
    /\ linkMappingJson = Absent
    /\ linkMappingMd = Absent
    /\ lastScan = NoScan
    /\ filterRun = NotRun
    /\ brokenReport = Absent
    /\ edits = 0
    /\ srcDirExists = TRUE
    /\ builderOut = NoBuilderRun
    /\ ToolsIdle
    /\ FinderIdle

\* the orders glob may yield once file f has been added to the directory
OrdersWith(order, f) ==
    {[i \in 1..(Len(order) + 1) |->
        IF i < k THEN order[i] ELSE IF i = k THEN f ELSE order[i - 1]]
     : k \in 1..(Len(order) + 1)}

\* the order glob yields once file f has been removed
OrderWithout(order, f) == SelectSeq(order, LAMBDA x : x # f)

\* the heads the user gives note f: no front matter, or the title of f
OwnHeads(f) == {NoHead, TitledHead(IF f = "A.md" THEN "Alpha" ELSE "Beta")}

\* the user writes a new note: a head and at most one link
CreateNote(f, fm, ls) ==
    /\ edits < MaxEdits
    /\ ~srcDir[f].exists
    /\ srcDir' = [srcDir EXCEPT ![f] = NoteFile(TRUE, fm, ls)]
    /\ globOrder' \in OrdersWith(globOrder, f)
    /\ edits' = edits + 1
    /\ UNCHANGED <<linkMappingJson, linkMappingMd, lastScan, filterRun, brokenReport,
                   srcDirExists, builderOut, folder, createOut, kb,
                   poorOut, poorReport>>

\* the user edits a note: one more link at the end of its body
AppendLink(f, link) ==
    /\ edits < MaxEdits
    /\ srcDir[f].exists
    /\ srcDir' = [srcDir EXCEPT ![f].links = Append(@, link)]
    /\ edits' = edits + 1
    /\ UNCHANGED <<globOrder, linkMappingJson, linkMappingMd, lastScan, filterRun,
                   brokenReport, srcDirExists, builderOut, folder, createOut, kb,
                   poorOut, poorReport>>

\* the user deletes a note
DeleteNote(f) ==
    /\ edits < MaxEdits
    /\ srcDir[f].exists
    /\ srcDir' = [srcDir EXCEPT ![f] = NoFile]
    /\ globOrder' = OrderWithout(globOrder, f)
    /\ edits' = edits + 1
    /\ UNCHANGED <<linkMappingJson, linkMappingMd, lastScan, filterRun, brokenReport,
                   srcDirExists, builderOut, folder, createOut, kb,
                   poorOut, poorReport>>

\* build_link_mapping.py main(), for the outcomes of its two writes: an
\* exception that leaves main() ends the process with status 1
BuilderMain(jsonOutcome, mdOutcome) ==
    LET acc == ScanAccumulate(InitialAccumulators(linkMappingJson), srcDirExists,
                              srcDir, globOrder)
    IN  IF acc = ScanRaised
        THEN /\ builderOut' = [ran |-> TRUE, exit |-> 1, stdout |-> <<"scanning">>]
             /\ UNCHANGED <<srcDir, globOrder, linkMappingJson, linkMappingMd, lastScan,
                            filterRun, brokenReport, edits, srcDirExists, folder, createOut,
                            poorOut, poorReport>>
        ELSE \E seed \in HashSeeds :
             LET g == ScanReturn(acc, seed)
                 json_text == JsonDump(GenerateJsonMapping(g))
                 md_content == GenerateMarkdownMapping(g)
                 json_done == jsonOutcome.raises = "none"
                 md_done == json_done /\ mdOutcome.raises = "none"
             IN  /\ lastScan' = [ran |-> TRUE, dir |-> srcDir, order |-> globOrder,
                                  graph |-> g,
                                  rerun |-> /\ lastScan.ran
                                            /\ lastScan.dir = srcDir
                                            /\ lastScan.order = globOrder,
                                  broken_before |-> BrokenTargets(linkMappingJson)]
                 /\ linkMappingJson' = WriteFile(linkMappingJson, json_text, jsonOutcome)
                 /\ linkMappingMd' = IF json_done
                                      THEN WriteFile(linkMappingMd, md_content, mdOutcome)
                                      ELSE linkMappingMd
                 /\ builderOut' =
                       [ran |-> TRUE, exit |-> IF md_done THEN 0 ELSE 1,
                        stdout |-> <<"scanning", "counts", "json">>
                                   \o (IF json_done THEN <<"json_ok", "md">> ELSE <<>>)
                                   \o (IF md_done THEN <<"md_ok", "done">> ELSE <<>>)]
                 /\ UNCHANGED <<srcDir, globOrder, filterRun, brokenReport, edits,
                                srcDirExists, folder, createOut,
                            poorOut, poorReport>>

\* a run of the builder whose two writes succeed
BuilderRun == BuilderMain(WriteOk, WriteOk) /\ UNCHANGED kb

\* the ways a write fails: open() raises (no permission, no SYSTEM_DIR); or
\* the disk is full, and none of the data reaches the file open() truncated
WriteFailures == {OpenRaises, WriteRaises(0)}

\* a run of the builder in which a write fails: that of LINK_MAPPING.json, or
\* that of LINK_MAPPING.md after LINK_MAPPING.json was written
BuilderWriteFails ==
    \/ \E jsonOutcome \in WriteFailures :
          BuilderMain(jsonOutcome, WriteOk) /\ UNCHANGED kb
    \/ \E mdOutcome \in WriteFailures :
          BuilderMain(WriteOk, mdOutcome) /\ UNCHANGED kb

\* find_broken_links_geography.py main()
FilterMain ==
    IF ~linkMappingJson.exists
    THEN /\ filterRun' = FilterNotBuilt
         /\ UNCHANGED <<srcDir, globOrder, linkMappingJson, linkMappingMd, lastScan,
                        brokenReport, edits, srcDirExists, builderOut, folder, createOut,
                        poorOut, poorReport>>
    ELSE LET broken == FindBrokenLinksGeography(linkMappingJson.data,
                                                CurrentFiles(srcDir, globOrder))
         IN  /\ filterRun' = [ran |-> TRUE, built |-> TRUE, result |-> broken,
                              total_links |-> Len(broken),
                              total_mentions |-> TotalMentions(broken),
                              statistics |-> DictGet(JsonLoad(linkMappingJson.data),
                                                     "statistics", <<>>),
                              unchanged |-> /\ lastScan.dir = srcDir
                                            /\ lastScan.order = globOrder,
                              exit |-> 0,
                              stdout |-> <<"searching", "counts">>
                                         \o (IF Len(broken) = 0 THEN <<"none_found">>
                                             ELSE <<"generating", "ok", "done">>)]
             /\ brokenReport' = IF Len(broken) = 0 THEN brokenReport
                                ELSE Written(GenerateOutput(broken))
             /\ UNCHANGED <<srcDir, globOrder, linkMappingJson, linkMappingMd, lastScan,
                            edits, srcDirExists, builderOut, folder, createOut,
                        poorOut, poorReport>>

\* a run of the filter from the command line
FilterRun == FilterMain /\ UNCHANGED kb

\* find_poor_content_geography.py main()
PoorContentMain ==
    LET poor_content_files == FindPoorContentFiles(srcDirExists, srcDir, globOrder)
        total_files == TotalFiles(poor_content_files)
    IN  /\ poorOut' = [ran |-> TRUE, result |-> poor_content_files,
                        total_files |-> total_files, exit |-> 0,
                        stdout |-> <<"searching">>
                                   \o (IF srcDirExists THEN <<>> ELSE <<"no_directory">>)
                                   \o <<"found">>
                                   \o (IF total_files = 0 THEN <<"none_found">>
                                       ELSE <<"generating", "ok", "done">>)]
        /\ poorReport' = PoorReportAfter(poorReport, poor_content_files)
        /\ UNCHANGED <<linkVars, folder, createOut>>

\* a run of the finder from the command line
PoorContentRun == PoorContentMain /\ UNCHANGED kb

\* create_note.py main() with -n name and -t template, on the day timestamp,
\* TEMPLATES_DIR holding template_file under the name of the template: the
\* note is written unless its file exists; FileExistsError ends the process
\* with status 1
CreateNoteMain(name, template, timestamp, template_file) ==
    LET filename == Filename(timestamp, name)
        note == NoteContent(name, template, timestamp, template_file)
    IN  /\ createOut.runs < MaxCreates
        /\ IF FileExists(folder, filename)
           THEN /\ createOut' = [ran |-> TRUE, runs |-> createOut.runs + 1,
                                 filename |-> filename, source |-> "",
                                 raised |-> "FileExistsError", exit |-> 1,
                                 stdout |-> <<>>, stderr |-> <<"error", filename>>]
                /\ folder' = folder
           ELSE /\ folder' = [exists |-> TRUE,
                              files |-> [folder.files EXCEPT
                                            ![filename] = Written(note.content)]]
                /\ createOut' = [ran |-> TRUE, runs |-> createOut.runs + 1,
                                 filename |-> filename, source |-> note.source,
                                 raised |-> "", exit |-> 0,
                                 stdout |-> <<note.source, filename, "ready", "obsidian">>,
                                 stderr |-> <<>>]
        /\ UNCHANGED <<linkVars, poorOut, poorReport>>

\* the files TEMPLATES_DIR may hold under a name: none, or a template
TemplateDir == {Absent} \cup {Written(t) : t \in TemplateFiles}

\* a run of create_note.py from the command line; -t "" gives no template
CreateNoteRun ==
    \E name \in NoteNames, template \in TemplateNames \cup {""},
       timestamp \in Timestamps, template_file \in TemplateDir :
        CreateNoteMain(name, template, timestamp, template_file) /\ UNCHANGED kb

\* kb.py main() up to the first script: the usage and status 1 without a
\* command or with an unknown one; else the scripts to run
KbStart ==
    /\ kb.pc = "start"
    /\ kb' = IF Len(kb.argv) < 1 THEN KbExit(kb, 1, <<"usage">>)
             ELSE IF Lower(kb.argv[1]) \notin DOMAIN COMMANDS
             THEN KbExit(kb, 1, <<"unknown_command", "usage">>)
             ELSE IF Lower(kb.argv[1]) = "all"
             THEN [kb EXCEPT !.pc = "running",
                             !.queue = [i \in DOMAIN scripts_order |-> scripts_order[i][2]],
                             !.stdout = <<"starting_all">>]
             ELSE [kb EXCEPT !.pc = "running",
                             !.queue = <<COMMANDS[Lower(kb.argv[1])].script>>,
                             !.stdout = <<"starting">>]
    /\ UNCHANGED <<linkVars, folder, createOut, poorOut, poorReport>>

\* run_script finds no file of that name in SCRIPT_DIR and returns 1
KbScriptNotFound ==
    /\ kb.pc = "running"
    /\ Head(kb.queue) \notin kb.scripts
    /\ kb' = Returned(kb, 1, FALSE)
    /\ UNCHANGED <<linkVars, folder, createOut, poorOut, poorReport>>

\* the script run_script is to start now, if SCRIPT_DIR holds it
KbNextScript(script) ==
    /\ kb.pc = "running"
    /\ Head(kb.queue) = script
    /\ script \in kb.scripts

\* the outcomes of the two writes of a builder run
BuilderOutcomes ==
    {<<WriteOk, WriteOk>>} \cup {<<failure, WriteOk>> : failure \in WriteFailures}
    \cup {<<WriteOk, failure>> : failure \in WriteFailures}

\* run_script("build_link_mapping.py"): the builder runs to its end, and
\* kb.py goes on with its status
KbRunBuilder ==
    /\ KbNextScript("build_link_mapping.py")
    /\ \E outcomes \in BuilderOutcomes : BuilderMain(outcomes[1], outcomes[2])
    /\ kb' = Returned(kb, builderOut'.exit, TRUE)

\* run_script("find_poor_content_geography.py"): the finder runs to its end,
\* code 0, or the process is ended from outside before it writes, with any
\* other code
KbRunPoorContent ==
    /\ KbNextScript("find_poor_content_geography.py")
    /\ \E code \in ReturnCodes :
          /\ IF code = 0 THEN PoorContentMain
             ELSE UNCHANGED <<linkVars, folder, createOut, poorOut, poorReport>>
          /\ kb' = Returned(kb, code, TRUE)

\* run_script("find_broken_links_geography.py")
KbRunFilter ==
    /\ KbNextScript("find_broken_links_geography.py")
    /\ FilterMain
    /\ kb' = Returned(kb, filterRun'.exit, TRUE)

\* run_script("create_note.py", args): without -n argparse ends the script
\* with status 2; with -n the note is made from the default template
KbRunCreateNote ==
    /\ KbNextScript("create_note.py")
    /\ LET args == IF COMMANDS["create-note"].needs_args /\ Len(kb.argv) > 1
                    THEN Tail(kb.argv) ELSE <<>>
       IN  IF Len(args) >= 2 /\ args[1] = "-n"
       THEN \E timestamp \in Timestamps, template_file \in TemplateDir :
               CreateNoteMain(args[2], DEFAULT_TEMPLATE, timestamp, template_file)
       ELSE /\ createOut' = [NoCreateRun EXCEPT !.ran = TRUE, !.exit = 2,
                                                !.stderr = <<"usage", "error">>]
            /\ UNCHANGED <<linkVars, folder, poorOut, poorReport>>
    /\ kb' = Returned(kb, createOut'.exit, TRUE)

\* the link the user adds to a note: to b.md, under a second display text
AddedLinks == { <<"B", <<"b.md">> >> }

Next ==
    \/ \E f \in FileNames, ls \in SeqsUpTo(RawLinks, 1) : \E fm \in OwnHeads(f) :
          CreateNote(f, fm, ls)
    \/ \E f \in FileNames, link \in AddedLinks : AppendLink(f, link)
    \/ \E f \in FileNames : DeleteNote(f)
    \/ BuilderRun
    \/ FilterRun

Spec == Init /\ [][Next]_vars

\* notes are created, and the builder runs on a disk where a write may fail
DiskNext ==
    \/ \E f \in FileNames, ls \in SeqsUpTo(RawLinks, 1) : CreateNote(f, NoHead, ls)
    \/ BuilderRun
    \/ BuilderWriteFails

DiskSpec == Init /\ [][DiskNext]_vars

\* the links of ls that belong to file f
LinksOf(ls, owner, f) ==
    LET at == SelectSeq([i \in DOMAIN ls |-> i], LAMBDA i : owner[i] = f)
    IN  [j \in DOMAIN at |-> ls[at[j]]]

\* SRC_DIR missing, or any directory holding at most MaxLinks links; nothing
\* built; the directory then stays as it is. A file that cannot be read holds
\* a title and any links: no step of the program sees what it holds
ScanInit ==
    /\ srcDirExists \in BOOLEAN
    /\ \E present \in (IF srcDirExists THEN SUBSET FileNames ELSE {{}}), ls \in SeqsUpTo(RawLinks, MaxLinks) :
         \E readable \in [present -> BOOLEAN], fm \in [present -> Heads],
            owner \in [DOMAIN ls -> present] :
             /\ \A i, j \in DOMAIN ls : i < j => ~StrLess(owner[j], owner[i])
             /\ \A f \in present : ~readable[f] => fm[f] = TitledHead("Alpha")
             /\ srcDir = [f \in FileNames |->
                            IF f \in present
                            THEN NoteFile(readable[f], fm[f], LinksOf(ls, owner, f))
                            ELSE NoFile]
    /\ globOrder \in Perms(Present(srcDir))
    /\ linkMappingJson = Absent
    /\ linkMappingMd = Absent
    /\ lastScan = NoScan
    /\ filterRun = NotRun
    /\ brokenReport = Absent
    /\ edits = 0
    /\ builderOut = NoBuilderRun
    /\ ToolsIdle
    /\ FinderIdle

ScanNext == BuilderRun

\* a directory of one note, whose head holds a title line of at most
\* MaxValueLen pieces; nothing built
TitleInit ==
    /\ srcDirExists = TRUE
    /\ \E value \in SeqsUpTo(ValuePieces, MaxValueLen) : \E head \in TitleHeads(value) :
          srcDir = [f \in FileNames |->
                      IF f = "A.md" THEN NoteFile(TRUE, head, <<>>) ELSE NoFile]
    /\ globOrder = <<"A.md">>
    /\ linkMappingJson = Absent
    /\ linkMappingMd = Absent
    /\ lastScan = NoScan
    /\ filterRun = NotRun
    /\ brokenReport = Absent
    /\ edits = 0
    /\ builderOut = NoBuilderRun
    /\ ToolsIdle
    /\ FinderIdle

TitleNext == BuilderRun

TitleSpec == TitleInit /\ [][TitleNext]_vars

ScanSpec == ScanInit /\ [][ScanNext]_vars

\* nothing built, no note made: the folder is there or is not
NoteInit ==
    /\ srcDir = [f \in FileNames |-> NoFile]
    /\ globOrder = <<>>
    /\ linkMappingJson = Absent
    /\ linkMappingMd = Absent
    /\ lastScan = NoScan
    /\ filterRun = NotRun
    /\ brokenReport = Absent
    /\ edits = 0
    /\ srcDirExists = TRUE
    /\ builderOut = NoBuilderRun
    /\ folder \in {NoFolder, EmptyFolder}
    /\ createOut = NoCreateRun
    /\ kb = NoKb
    /\ FinderIdle

NoteNext == CreateNoteRun

NoteSpec == NoteInit /\ [][NoteNext]_vars

\* nothing built, no note made; kb.py is started with any of the arguments,
\* SCRIPT_DIR holding any of the scripts
KbInit ==
    /\ srcDir = [f \in FileNames |-> NoFile]
    /\ globOrder = <<>>
    /\ linkMappingJson = Absent
    /\ linkMappingMd = Absent
    /\ lastScan = NoScan
    /\ filterRun = NotRun
    /\ brokenReport = Absent
    /\ edits = 0
    /\ srcDirExists = TRUE
    /\ builderOut = NoBuilderRun
    /\ folder = NoFolder
    /\ createOut = NoCreateRun
    /\ FinderIdle
    /\ \E argv \in Argvs, scripts \in SUBSET ScriptNames : kb = KbStarted(argv, scripts)

KbNext ==
    \/ KbStart
    \/ KbScriptNotFound
    \/ KbRunBuilder
    \/ KbRunPoorContent
    \/ KbRunFilter
    \/ KbRunCreateNote

KbSpec == KbInit /\ [][KbNext]_vars

\* the lines of a note text: a line of text, an empty line, a heading, a
\* line ---
BodyLineKinds == { <<"text">>, <<>>, <<"#", " ", "H">>, <<"---">> }

\* the text the lines make, each ended by a line break
LinesText(lines) == Concat([i \in DOMAIN lines |-> lines[i] \o <<"\n">>])

\* how the text of a note begins: with nothing before its lines; with a
\* front matter that holds the topic flag; with the flag on a line outside
\* any front matter
Fronts == { <<>>, Block(<< TopicFlag >>), TopicFlag \o <<"\n">> }

\* the second note of the directory: none; a flagged note of one link; a
\* flagged note that cannot be read
SecondNotes ==
    { NoFile,
      NoteFile(TRUE, Block(<< TopicFlag >>), << <<"A", <<".", "b.md">> >> >>),
      NoteFile(FALSE, Block(<< TopicFlag >>), <<>>) }

\* SRC_DIR missing; or a note A.md of any front and at most MaxBodyLines
\* lines, beside any second note; the finder never ran
PoorInit ==
    /\ srcDirExists \in BOOLEAN
    /\ IF srcDirExists
       THEN \E front \in Fronts, lines \in SeqsUpTo(BodyLineKinds, MaxBodyLines),
               second \in SecondNotes :
               srcDir = [f \in FileNames |->
                           IF f = "A.md" THEN NoteFile(TRUE, front \o LinesText(lines), <<>>)
                           ELSE second]
       ELSE srcDir = [f \in FileNames |-> NoFile]
    /\ globOrder \in Perms(Present(srcDir))
    /\ linkMappingJson = Absent
    /\ linkMappingMd = Absent
    /\ lastScan = NoScan
    /\ filterRun = NotRun
    /\ brokenReport = Absent
    /\ edits = 0
    /\ builderOut = NoBuilderRun
    /\ ToolsIdle
    /\ FinderIdle

PoorNext == PoorContentRun

PoorSpec == PoorInit /\ [][PoorNext]_vars

\* the heads the user gives a note: no front matter, or one with the topic flag
ReportHeads == {NoHead, Block(<< TopicFlag >>)}

\* the links the user gives a note: none, or one to b.md
ReportLinks == { <<>>, << <<"A", <<".", "b.md">> >> >> }

\* the user adds MIN_CONTENT_LINES lines of text to a note
EnrichNote(f) ==
    /\ edits < MaxEdits
    /\ srcDir[f].exists
    /\ srcDir' = [srcDir EXCEPT
                    ![f].head = @ \o LinesText([i \in 1..MIN_CONTENT_LINES |-> <<"text">>])]
    /\ edits' = edits + 1
    /\ UNCHANGED <<globOrder, linkMappingJson, linkMappingMd, lastScan, filterRun,
                   brokenReport, srcDirExists, builderOut, folder, createOut, kb,
                   poorOut, poorReport>>

\* notes are written, enriched and deleted; the builder, the filter and the
\* finder run
ReportNext ==
    \/ \E f \in FileNames, head \in ReportHeads, ls \in ReportLinks :
          CreateNote(f, head, ls)
    \/ \E f \in FileNames : EnrichNote(f)
    \/ \E f \in FileNames : DeleteNote(f)
    \/ BuilderRun
    \/ FilterRun
    \/ PoorContentRun

ReportSpec == Init /\ [][ReportNext]_vars

----------------------------------------------------------------------------
(* What a scan is about, stated from the directory and not from the scan *)

\* the title a note declares, by the head it was given; "" when it has none
DeclaredTitle(note) ==
    IF note.head = NoHead THEN ""
    ELSE CHOOSE t \in Titles \cup {""} : note.head = TitledHead(t)

\* the files of a directory that open() can read
Readable(dir) == {f \in Present(dir) : dir[f].readable}

\* the file name a markdown link names: the last segment of its path
TargetOf(link) == link[2][Len(link[2])]

\* every file name the model can name
AllNames == FileNames \cup {TargetOf(l) : l \in RawLinks}

\* the mentions of one note, in source order
MentionsIn(dir, f) ==
    [i \in DOMAIN dir[f].links |->
        [text |-> dir[f].links[i][1], target |-> TargetOf(dir[f].links[i]), source |-> f]]

\* the mentions as scanned: files in visit order, mentions in source order
Mentions(dir, order) ==
    Concat([i \in DOMAIN order |->
              IF dir[order[i]].readable THEN MentionsIn(dir, order[i]) ELSE <<>>])

\* the display texts mentioned for target t, in the order of the mentions
TextsFor(mentions, t) ==
    LET of_t == SelectSeq(mentions, LAMBDA m : m.target = t)
    IN  [i \in DOMAIN of_t |-> of_t[i].text]

\* the notes that mention target t
SourcesOf(mentions, t) == {mentions[i].source : i \in {j \in DOMAIN mentions : mentions[j].target = t}}

\* the place of the first occurrence of x in l
FirstIndex(l, x) == CHOOSE i \in DOMAIN l : l[i] = x /\ \A j \in 1..(i - 1) : l[j] # x

\* the distinct elements of l, each once, ordered by first occurrence
FirstSeen(l) ==
    CHOOSE s \in Perms(Range(l)) :
        \A i, j \in DOMAIN s : i < j => FirstIndex(l, s[i]) < FirstIndex(l, s[j])

\* s is strictly ascending
Ascending(s) == \A i, j \in DOMAIN s : i < j => StrLess(s[i], s[j])

----------------------------------------------------------------------------
(* Claims about scan_notes, over every directory within the bounds (ScanSpec) *)

\* C1: after scan_notes, t is a key of broken_links iff t is a key of all_links
\* and no file named t is in the scanned directory; and broken_links[t] is then
\* the same list, in the same order, as all_links[t].
C1_BrokenIffMissing ==
    lastScan.ran =>
        LET g == lastScan.graph
        IN  /\ DictKeys(g.broken_links) \subseteq AllNames
            /\ \A t \in AllNames :
                /\ DictHas(g.broken_links, t) <=>
                      (DictHas(g.all_links, t) /\ t \notin Present(lastScan.dir))
                /\ DictHas(g.broken_links, t) =>
                      DictGet(g.broken_links, t, <<>>) = DictGet(g.all_links, t, <<>>)

\* a scan met a missing target, and a target with two display texts whose
\* file is present but cannot be read
C1_Witness ==
    /\ lastScan.ran
    /\ lastScan.graph.broken_links # <<>>
    /\ \E t \in DictKeys(lastScan.graph.all_links) :
          /\ t \in Present(lastScan.dir) /\ ~lastScan.dir[t].readable
          /\ Len(DictGet(lastScan.graph.all_links, t, <<>>)) = 2

\* C2: the keys of broken_links are keys of all_links, and none of them is a
\* value of existing_notes.
C2_BrokenSubsetNoTitledNote ==
    lastScan.ran =>
        LET g == lastScan.graph
        IN  /\ DictKeys(g.broken_links) \subseteq DictKeys(g.all_links)
            /\ DictKeys(g.broken_links) \cap Range(DictValues(g.existing_notes)) = {}

\* a scan found a broken target, and a titled note that other notes link to
C2_Witness ==
    /\ lastScan.ran
    /\ lastScan.graph.broken_links # <<>>
    /\ \E f \in Range(DictValues(lastScan.graph.existing_notes)) :
          DictHas(lastScan.graph.all_links, f)

\* C3: the keys of all_links are exactly the targets mentioned by a scanned
\* note, existing or not; files_linking_to has the same keys; no value of
\* either map is empty.
C3_AllLinksKeys ==
    lastScan.ran =>
        LET g == lastScan.graph
            mentioned == {TargetOf(l) : l \in UNION {Range(lastScan.dir[f].links) :
                                                      f \in Readable(lastScan.dir)}}
        IN  /\ DictKeys(g.all_links) = mentioned
            /\ DictKeys(g.files_linking_to) = mentioned
            /\ \A i \in DOMAIN g.all_links : g.all_links[i][2] # <<>>
            /\ \A i \in DOMAIN g.files_linking_to : g.files_linking_to[i][2] # <<>>

\* a scan recorded an existing and a missing target, both named by one note
C3_Witness ==
    /\ lastScan.ran
    /\ \E f \in Readable(lastScan.dir) :
          {TargetOf(l) : l \in Range(lastScan.dir[f].links)} = {"b.md", "c.md"}
    /\ "b.md" \in Present(lastScan.dir)

\* C4: all_links[t] and broken_links[t] hold each display text mentioned for t
\* once, ordered by the first occurrence of the text among the mentions as
\* scanned, not alphabetically.
C4_FirstSeenOrder ==
    lastScan.ran =>
        LET g == lastScan.graph
            mentions == Mentions(lastScan.dir, lastScan.order)
        IN  /\ \A i \in DOMAIN g.all_links :
                  g.all_links[i][2] = FirstSeen(TextsFor(mentions, g.all_links[i][1]))
            /\ \A i \in DOMAIN g.broken_links :
                  g.broken_links[i][2] = FirstSeen(TextsFor(mentions, g.broken_links[i][1]))

\* a target mentioned three times, as B, A, B over two notes: the list is B, A
C4_Witness ==
    /\ lastScan.ran
    /\ Len(lastScan.order) = 2
    /\ \E t \in DictKeys(lastScan.graph.all_links) :
          /\ TextsFor(Mentions(lastScan.dir, lastScan.order), t) = <<"B", "A", "B">>
          /\ DictGet(lastScan.graph.all_links, t, <<>>) = <<"B", "A">>
          /\ SourcesOf(Mentions(lastScan.dir, lastScan.order), t) = FileNames

\* C5: files_linking_to[t] is strictly ascending and holds exactly the names of
\* the scanned notes that mention t, however often each does.
C5_FilesLinkingToSorted ==
    lastScan.ran =>
        LET g == lastScan.graph
            mentions == Mentions(lastScan.dir, lastScan.order)
        IN  \A i \in DOMAIN g.files_linking_to :
                /\ Ascending(g.files_linking_to[i][2])
                /\ Range(g.files_linking_to[i][2]) = SourcesOf(mentions, g.files_linking_to[i][1])

\* two notes visited in descending order mention one target, one of them twice
C5_Witness ==
    /\ lastScan.ran
    /\ lastScan.order = <<"b.md", "A.md">>
    /\ \E t \in DictKeys(lastScan.graph.files_linking_to) :
          /\ DictGet(lastScan.graph.files_linking_to, t, <<>>) = <<"A.md", "b.md">>
          /\ Len(TextsFor(MentionsIn(lastScan.dir, "b.md"), t)) = 2

\* the statistics member of LINK_MAPPING.json
StatisticsOf(artifact) == DictGet(JsonLoad(artifact.data), "statistics", <<>>)

\* C6: in the structured artifact, the four statistics are the sizes of
\* existing_notes, all_links and broken_links, and the sum over the broken
\* targets of the number of their distinct display texts.
C6_StatisticsDerived ==
    (lastScan.ran /\ linkMappingJson.exists) =>
        LET g == lastScan.graph
            st == StatisticsOf(linkMappingJson)
        IN  /\ DictGet(st, "total_existing_notes", -1) = Cardinality(DictKeys(g.existing_notes))
            /\ DictGet(st, "total_linked_files", -1) = Cardinality(DictKeys(g.all_links))
            /\ DictGet(st, "total_broken_links", -1) = Cardinality(DictKeys(g.broken_links))
            /\ DictGet(st, "total_broken_link_mentions", -1) =
                  Sum([i \in DOMAIN g.broken_links |->
                         Cardinality(Range(TextsFor(Mentions(lastScan.dir, lastScan.order),
                                                    g.broken_links[i][1])))])

\* an artifact counting two notes, two linked files and one broken target,
\* whose one display text two notes mention
C6_Witness ==
    /\ linkMappingJson.exists
    /\ StatisticsOf(linkMappingJson) =
          << <<"total_existing_notes", 2>>, <<"total_linked_files", 2>>,
             <<"total_broken_links", 1>>, <<"total_broken_link_mentions", 1>> >>
    /\ Len(TextsFor(Mentions(lastScan.dir, lastScan.order), "c.md")) = 2

\* C10: a file that cannot be read does not end the scan: it adds no title and
\* no mention, and the title and the mentions of every file that can be read
\* are in the graph, wherever in the visit order the failure is.
C10_ReadFailureSkipsFile ==
    lastScan.ran =>
        LET g == lastScan.graph
            d == lastScan.dir
        IN  /\ linkMappingJson.exists
            /\ \A f \in Readable(d) :
                /\ DeclaredTitle(d[f]) # "" => DictHas(g.existing_notes, DeclaredTitle(d[f]))
                /\ \A l \in Range(d[f].links) :
                      /\ l[1] \in Range(DictGet(g.all_links, TargetOf(l), <<>>))
                      /\ f \in Range(DictGet(g.files_linking_to, TargetOf(l), <<>>))
            /\ Range(DictValues(g.existing_notes)) \subseteq Readable(d)
            /\ DictKeys(g.existing_notes) \subseteq
                  {DeclaredTitle(d[f]) : f \in {r \in Readable(d) : DeclaredTitle(d[r]) # ""}}
            /\ \A i \in DOMAIN g.files_linking_to :
                  Range(g.files_linking_to[i][2]) \subseteq Readable(d)
            /\ \A i \in DOMAIN g.all_links :
                  Range(g.all_links[i][2]) \subseteq
                      {l[1] : l \in {k \in UNION {Range(d[f].links) : f \in Readable(d)} :
                                       TargetOf(k) = g.all_links[i][1]}}

\* the first file visited cannot be read, though it holds a title and a link;
\* the second can, and its title and its link are in the graph
C10_Witness ==
    /\ lastScan.ran
    /\ Len(lastScan.order) = 2
    /\ ~lastScan.dir[lastScan.order[1]].readable
    /\ DeclaredTitle(lastScan.dir[lastScan.order[1]]) # ""
    /\ lastScan.dir[lastScan.order[1]].links # <<>>
    /\ lastScan.dir[lastScan.order[2]].readable
    /\ lastScan.graph.existing_notes # <<>>
    /\ lastScan.graph.all_links # <<>>

\* C11: when the note directory does not exist, scan_notes does not fail: it
\* returns four empty maps, and the statistics derived from them, as the
\* builder then writes them, are all zero.
C11_MissingDirEmptyGraph ==
    (builderOut.ran /\ ~srcDirExists) =>
        /\ lastScan.ran
        /\ lastScan.graph = [existing_notes |-> <<>>, all_links |-> <<>>,
                             broken_links |-> <<>>, files_linking_to |-> <<>>]
        /\ builderOut.exit = 0
        /\ linkMappingJson.exists
        /\ StatisticsOf(linkMappingJson) =
              << <<"total_existing_notes", 0>>, <<"total_linked_files", 0>>,
                 <<"total_broken_links", 0>>, <<"total_broken_link_mentions", 0>> >>

\* the builder ran with SRC_DIR missing, and wrote its artifacts
C11_Witness ==
    /\ ~srcDirExists
    /\ builderOut.ran
    /\ lastScan.ran
    /\ linkMappingJson.exists /\ linkMappingMd.exists

\* C13: existing_notes maps each distinct non-empty title declared by a note
\* that was read to the file name of the last note visited that declares it;
\* a title declared twice raises no error; a note with an empty or a missing
\* title is under no key; the size of existing_notes is the number of distinct
\* non-empty titles.
C13_ExistingNotesLastWins ==
    lastScan.ran =>
        LET g      == lastScan.graph
            d      == lastScan.dir
            order  == lastScan.order
            titled == {f \in Readable(d) : DeclaredTitle(d[f]) # ""}
            titles == {DeclaredTitle(d[f]) : f \in titled}
        IN  /\ DictKeys(g.existing_notes) = titles
            /\ Len(g.existing_notes) = Cardinality(titles)
            /\ \A t \in titles :
                  \E i \in DOMAIN order :
                      /\ order[i] \in titled /\ DeclaredTitle(d[order[i]]) = t
                      /\ \A j \in DOMAIN order :
                            (j > i /\ order[j] \in titled) => DeclaredTitle(d[order[j]]) # t
                      /\ DictGet(g.existing_notes, t, "") = order[i]
            /\ builderOut.ran /\ builderOut.exit = 0

\* two notes that can be read declare the title Beta; the one visited last is
\* recorded, though its name is the smaller
C13_Witness ==
    /\ lastScan.ran
    /\ lastScan.order = <<"b.md", "A.md">>
    /\ Readable(lastScan.dir) = FileNames
    /\ \A f \in FileNames : DeclaredTitle(lastScan.dir[f]) = "Beta"
    /\ lastScan.graph.existing_notes = << <<"Beta", "A.md">> >>

\* the lines of LINK_MAPPING.md from the heading of a section up to the next
\* heading
Section(md, name) ==
    LET at   == CHOOSE i \in DOMAIN md : md[i] = <<"heading", name>>
        ends == {j \in DOMAIN md : j > at /\ md[j][1] = "heading"}
        next == IF ends = {} THEN Len(md) + 1
                ELSE CHOOSE j \in ends : \A k \in ends : j <= k
    IN  SubSeq(md, at + 1, next - 1)

\* C17: the "existing notes" section of LINK_MAPPING.md holds exactly one row
\* for each (title, file name) pair of existing_notes and nothing else, in
\* ascending order of title; the status of a row is [OK] if and only if
\* files_linking_to lists at least one file for the row's file name, and [!]
\* otherwise.
C17_ExistingNotesRows ==
    (lastScan.ran /\ linkMappingMd.exists) =>
        LET g    == lastScan.graph
            rows == Section(linkMappingMd.data, "existing notes")
        IN  /\ Len(rows) = Len(g.existing_notes)
            /\ \A i \in DOMAIN rows : rows[i][1] = "note"
            /\ {<<rows[i][2], rows[i][3]>> : i \in DOMAIN rows} = Range(g.existing_notes)
            /\ \A i, j \in DOMAIN rows : i < j => StrLess(rows[i][2], rows[j][2])
            /\ \A i \in DOMAIN rows :
                  /\ rows[i][5] \in {"[OK]", "[!]"}
                  /\ rows[i][5] = "[OK]" <=>
                        DictGet(g.files_linking_to, rows[i][3], <<>>) # <<>>

\* Beta was recorded before Alpha; the row of Alpha comes first and no file
\* links to its note, the row of Beta comes second and a file links to its note
C17_Witness ==
    /\ lastScan.ran /\ linkMappingMd.exists
    /\ DictKeys(lastScan.graph.existing_notes) = {"Alpha", "Beta"}
    /\ lastScan.graph.existing_notes[1][1] = "Beta"
    /\ LET rows == Section(linkMappingMd.data, "existing notes")
       IN  /\ Len(rows) = 2
           /\ rows[1][2] = "Alpha" /\ rows[1][5] = "[!]"
           /\ rows[2][2] = "Beta" /\ rows[2][5] = "[OK]"

----------------------------------------------------------------------------
(* Claims about builder runs on a disk where writes may fail (DiskSpec) *)

\* C16: a write failure is fatal for the builder run and the artifact is not
\* updated: the run ends with a non-zero status and without its closing
\* report, and the artifact whose write failed, written by an earlier run,
\* holds what it held before the run.
C16_FailedWriteKeepsArtifact ==
    [][(/\ linkMappingJson.exists /\ linkMappingMd.exists
        /\ UNCHANGED <<srcDir, filterRun>>
        /\ BuilderWriteFails) =>
          /\ builderOut'.exit # 0
          /\ "done" \notin Range(builderOut'.stdout)
          /\ IF "json_ok" \in Range(builderOut'.stdout)
             THEN linkMappingMd' = linkMappingMd
             ELSE linkMappingJson' = linkMappingJson]_vars

----------------------------------------------------------------------------
(* Claims about the title the scanner reads from a note (TitleSpec) *)

\* the two quote characters
Quotes == {"\"", "'"}

\* where a head holds its title line
TitleAt(head) == CHOOSE i \in DOMAIN head : head[i] = "title"

\* the X of the line "title: X": what follows the first colon, up to the end
\* of the line
TitleValue(head) ==
    LET rest == SubSeq(head, TitleAt(head) + 2, Len(head))
    IN  SubSeq(rest, 1, Find(rest, "\n") - 1)

\* the head begins with the delimiter, has a closing delimiter, and holds a
\* title line
HasTitleLine(head) ==
    /\ StartsWith(head, "---")
    /\ Cardinality({i \in DOMAIN head : head[i] = "---"}) >= 2
    /\ \E i \in DOMAIN head : head[i] = "title"

\* a text less one quote character at each end where there is one
OneLayerStripped(text) ==
    LET left == IF text # <<>> /\ Head(text) \in Quotes THEN Tail(text) ELSE text
    IN  IF left # <<>> /\ left[Len(left)] \in Quotes
        THEN SubSeq(left, 1, Len(left) - 1) ELSE left

\* C12: for a note that begins with the front-matter delimiter, has a closing
\* delimiter and holds a line "title: X", the scanner yields as title X cut at
\* the first colon only, trimmed of surrounding whitespace and then stripped of
\* exactly one layer of surrounding quote characters; a note whose title is
\* not empty is recorded under it.
C12_TitleOneLayerStripped ==
    (lastScan.ran /\ HasTitleLine(lastScan.dir["A.md"].head)) =>
        LET value == TitleValue(lastScan.dir["A.md"].head)
            title == Join(OneLayerStripped(Strip(value, Whitespace)))
        IN  lastScan.graph.existing_notes =
                IF title = "" THEN <<>> ELSE << <<title, "A.md">> >>


\* the members of LINK_MAPPING.json, as json.load yields them
Loaded(artifact, member) == DictGet(JsonLoad(artifact.data), member, <<>>)

\* C7: the counts derived again from the broken_links member of the reloaded
\* LINK_MAPPING.json are its statistics total_broken_links and
\* total_broken_link_mentions; and a filter run on a directory unchanged since
\* the builder run computes those two totals.
C7_RoundTrip ==
    /\ linkMappingJson.exists =>
          LET data   == JsonLoad(linkMappingJson.data)
              broken == DictGet(data, "broken_links", <<>>)
              st     == DictGet(data, "statistics", <<>>)
          IN  /\ Cardinality(DictKeys(broken)) = DictGet(st, "total_broken_links", -1)
              /\ Sum([i \in DOMAIN broken |-> Len(broken[i][2])]) =
                    DictGet(st, "total_broken_link_mentions", -1)
    /\ (filterRun.built /\ filterRun.unchanged) =>
          /\ filterRun.total_links = DictGet(filterRun.statistics, "total_broken_links", -1)
          /\ filterRun.total_mentions =
                DictGet(filterRun.statistics, "total_broken_link_mentions", -1)

\* the filter ran on the directory the builder had scanned and counted one
\* broken target with two display texts
C7_Witness ==
    /\ filterRun.built
    /\ filterRun.unchanged
    /\ filterRun.total_links = 1
    /\ filterRun.total_mentions = 2
    /\ linkMappingJson.exists
    /\ Loaded(linkMappingJson, "broken_links") # <<>>

\* C14: when LINK_MAPPING.json is absent, the broken-links filter does not
\* fail: it tells the user that the file was not found and to run
\* build_link_mapping.py first, yields an empty result, writes no report file
\* and ends with exit status 0.
C14_AbsentArtifactNotBuilt ==
    /\ (filterRun.ran /\ ~filterRun.built) =>
          /\ filterRun.stdout = <<"searching", "not_found", "run_builder_first">>
          /\ filterRun.result = <<>>
          /\ filterRun.exit = 0
          /\ ~brokenReport.exists
    /\ (filterRun.ran /\ ~linkMappingJson.exists) => ~filterRun.built

\* the filter ran before any builder run, on a directory where a note links to
\* a missing file
C14_Witness ==
    /\ filterRun.ran
    /\ ~filterRun.built
    /\ ~linkMappingJson.exists
    /\ \E f \in Present(srcDir) :
          \E l \in Range(srcDir[f].links) : TargetOf(l) \notin Present(srcDir)

\* C15: a run of the broken-links filter that finds the artifact returns
\* exactly the entries of the artifact's broken_links whose file name is not in
\* the note directory as it is when the filter runs, in the artifact's order
\* and each with the artifact's list of display texts; so it never reports a
\* file that is in the directory, however stale the artifact.
C15_FilterDropsExisting ==
    [][(linkMappingJson.exists /\ UNCHANGED <<srcDir, lastScan, builderOut>> /\ FilterRun) =>
          LET listed == Loaded(linkMappingJson, "broken_links")
          IN  /\ filterRun'.result =
                    SelectSeq(listed, LAMBDA entry : entry[1] \notin Present(srcDir))
              /\ DictKeys(filterRun'.result) \cap Present(srcDir) = {}]_vars

\* the artifact lists as broken a file created after it was built, and the
\* filter, run on that directory, reported nothing
C15_Witness ==
    /\ filterRun.built
    /\ ~filterRun.unchanged
    /\ filterRun.result = <<>>
    /\ linkMappingJson.exists
    /\ DictKeys(Loaded(linkMappingJson, "broken_links")) \cap Present(srcDir) # {}

\* C8: a builder run on the directory the run before it scanned, nothing
\* changed in between, writes the two artifacts it finds.
C8_Idempotent ==
    [][(lastScan.ran /\ lastScan' # lastScan /\ lastScan'.rerun)
          => (linkMappingJson' = linkMappingJson /\ linkMappingMd' = linkMappingMd)]_vars

\* the builder ran again on an unchanged directory of two notes that link to
\* one missing target
C8_Witness ==
    /\ lastScan.rerun
    /\ Len(lastScan.order) = 2
    /\ \E i \in DOMAIN lastScan.graph.files_linking_to :
          Len(lastScan.graph.files_linking_to[i][2]) = 2
    /\ lastScan.graph.broken_links # <<>>
    /\ linkMappingJson.exists /\ linkMappingMd.exists

\* the ascending enumeration of a set of str
AscendingList(S) == CHOOSE p \in Perms(S) : Ascending(p)

\* the titles declared by the notes a scan reads, as <<title, file>> in visit order
Declared(dir, order) ==
    LET titled == SelectSeq(order, LAMBDA f : dir[f].readable /\ DeclaredTitle(dir[f]) # "")
    IN  [i \in DOMAIN titled |-> <<DeclaredTitle(dir[titled[i]]), titled[i]>>]

\* the graph of a directory, stated from the directory alone: keys in order of
\* first mention, texts in order of first occurrence, sources ascending, each
\* title with the last note declaring it
GraphOf(dir, order) ==
    LET mentions == Mentions(dir, order)
        targets  == FirstSeen([i \in DOMAIN mentions |-> mentions[i].target])
        missing  == SelectSeq(targets, LAMBDA t : t \notin Present(dir))
        declared == Declared(dir, order)
        titles   == FirstSeen([i \in DOMAIN declared |-> declared[i][1]])
        LastWith(t) == CHOOSE i \in DOMAIN declared :
                          /\ declared[i][1] = t
                          /\ \A j \in DOMAIN declared : j > i => declared[j][1] # t
    IN  [existing_notes   |-> [i \in DOMAIN titles |->
                                  <<titles[i], declared[LastWith(titles[i])][2]>>],
         all_links        |-> [i \in DOMAIN targets |->
                                  <<targets[i], FirstSeen(TextsFor(mentions, targets[i]))>>],
         broken_links     |-> [i \in DOMAIN missing |->
                                  <<missing[i], FirstSeen(TextsFor(mentions, missing[i]))>>],
         files_linking_to |-> [i \in DOMAIN targets |->
                                  <<targets[i], AscendingList(SourcesOf(mentions, targets[i]))>>]]

\* C9: after any creations, edits, deletions and builder runs, the two
\* artifacts are those of the directory as the latest builder run found it and
\* of nothing else; no target whose file was there is listed as broken.
C9_RebuiltFromScratch ==
    linkMappingJson.exists =>
        LET g == GraphOf(lastScan.dir, lastScan.order)
        IN  /\ lastScan.ran
            /\ linkMappingJson = Written(JsonDump(GenerateJsonMapping(g)))
            /\ linkMappingMd = Written(GenerateMarkdownMapping(g))
            /\ DictKeys(Loaded(linkMappingJson, "broken_links")) \cap Present(lastScan.dir) = {}

\* a target the overwritten artifact listed as broken exists at the latest
\* run, is linked, and is not listed as broken
C9_Witness ==
    /\ linkMappingJson.exists
    /\ \E t \in lastScan.broken_before :
          /\ t \in Present(lastScan.dir)
          /\ t \in DictKeys(Loaded(linkMappingJson, "all_links"))
          /\ t \notin DictKeys(Loaded(linkMappingJson, "broken_links"))

----------------------------------------------------------------------------
(* Claims about create_note.py (NoteSpec) *)

\* C19: create_note never overwrites an existing note: no step changes a
\* file that is in the folder, and a run whose file <timestamp>_<name>.md is
\* already there raises FileExistsError and ends with status 1, the folder
\* being left as it was, with no other file made.
C19_NeverOverwrites ==
    [][ /\ \A f \in NoteFileNames :
             (folder.exists /\ folder.files[f].exists) =>
                 folder'.files[f] = folder.files[f]
        /\ (/\ createOut'.runs = createOut.runs + 1
            /\ folder.exists
            /\ folder.files[createOut'.filename].exists) =>
               /\ createOut'.raised = "FileExistsError"
               /\ createOut'.exit = 1
               /\ createOut'.stdout = <<>>
               /\ folder' = folder ]_vars

\* a second run for the same name on the same day has failed, the note being
\* one made from a template, and another name is still free
C19_Witness ==
    /\ createOut.runs = 2
    /\ createOut.raised = "FileExistsError"
    /\ createOut.exit = 1
    /\ folder.files[createOut.filename].exists
    /\ IsIn(<<"title", ":", " ", "russia">>, folder.files[createOut.filename].data)
    /\ \E f \in NoteFileNames : ~folder.files[f].exists

\* the text has a YAML front matter, a block opened by --- as its first line
\* and closed by the next ---, and a line of the block is the topic flag, in
\* either spelling
HoldsTopicFlag(content) ==
    /\ Len(content) >= 2
    /\ content[1] = "---"
    /\ content[2] = "\n"
    /\ \E close \in 3..Len(content) :
          /\ content[close] = "---"
          /\ content[close - 1] = "\n"
          /\ \A j \in 2..(close - 1) : content[j] # "---"
          /\ \E i \in 3..(close - 1) : \E flag \in {TopicFlag, TopicFlagTight} :
                /\ content[i - 1] = "\n"
                /\ i + Len(flag) <= close - 1
                /\ SubSeq(content, i, i + Len(flag) - 1) = flag
                /\ content[i + Len(flag)] = "\n"

\* C20: every note file written by create_note, from an existing template,
\* from a missing template or with no template, holds the topic flag in its
\* YAML front matter.
C20_TopicFlagInEveryNote ==
    \A f \in NoteFileNames :
        (folder.exists /\ folder.files[f].exists) => HoldsTopicFlag(folder.files[f].data)

----------------------------------------------------------------------------
(* Claims about kb.py (KbSpec) *)

\* C18: under the command all the scripts are run in the order link-mapping,
\* poor-content, broken-links; a script is started only after the one before
\* it ended with code 0; at the first non-zero exit code kb.py ends with that
\* code, and none of the scripts left is started: the builder and the filter
\* have run only if kb.py started them.
C18_AllInOrderUntilFailure ==
    (kb.pc \in {"running", "exited"} /\ kb.argv # <<>> /\ kb.argv[1] \in {"all", "ALL"}) =>
        LET n == Len(kb.runs)
            order == <<"build_link_mapping.py", "find_poor_content_geography.py",
                       "find_broken_links_geography.py">>
        IN  /\ n <= 3
            /\ \A i \in 1..n : kb.runs[i].script = order[i]
            /\ \A i \in 1..(n - 1) : kb.runs[i].started /\ kb.runs[i].result = 0
            /\ (n > 0 /\ kb.runs[n].result # 0) =>
                  /\ kb.pc = "exited"
                  /\ kb.runs[n].result \in 1..255 => kb.exit = kb.runs[n].result
            /\ kb.pc = "exited" => (kb.exit = 0 <=> n = 3 /\ kb.runs[3].result = 0)
            /\ kb.pc = "running" => n < 3
            /\ builderOut.ran <=> (n >= 1 /\ kb.runs[1].started)
            /\ filterRun.ran <=> (n = 3 /\ kb.runs[3].started)

\* all has run the builder, which wrote its artifacts, then the second script,
\* which ended with code 2: kb.py has ended with 2 and the filter never ran
C18_Witness ==
    /\ kb.pc = "exited"
    /\ kb.argv = <<"all">>
    /\ Len(kb.runs) = 2
    /\ kb.runs[1].started /\ kb.runs[1].result = 0
    /\ kb.runs[2].started /\ kb.runs[2].result = 2
    /\ kb.exit = 2
    /\ linkMappingJson.exists
    /\ ~filterRun.ran

----------------------------------------------------------------------------
(* Claims about find_poor_content_geography.py (PoorSpec) *)

\* the lines of a text, stripped
StrippedLines(content) ==
    LET lines == SplitAll(content, "\n")
    IN  [i \in DOMAIN lines |-> Strip(lines[i], Whitespace)]

\* line i of the body that starts at line `from` is a line of text with a
\* line --- under it, which Markdown reads as a heading
Underlined(lines, from, i) ==
    /\ i >= from
    /\ i + 1 <= Len(lines)
    /\ lines[i] # <<>>
    /\ lines[i] # <<"---">>
    /\ lines[i + 1] = <<"---">>

\* the number of lines from line `from` on that are not empty and are not
\* headings: the lines --- are counted or are not, and a line of text with a
\* line --- under it is a heading or is not
RealLines(lines, from, rules, setext) ==
    Cardinality({i \in from..Len(lines) :
                    /\ lines[i] # <<>>
                    /\ Head(lines[i]) # "#"
                    /\ rules \/ lines[i] # <<"---">>
                    /\ setext => /\ ~Underlined(lines, from, i)
                                 /\ ~Underlined(lines, from, i - 1)})

\* the numbers of real content lines a text can be said to have. Its front
\* matter is the block that a first line --- opens and the next line ---
\* closes; a text that does not open with --- has none. Where the wording
\* leaves a choice every reading is taken: those of RealLines, and a block
\* that is never closed is front matter to the end of the text or is none
RealContentCounts(content) ==
    LET lines == StrippedLines(content)
        opened == Len(lines) >= 1 /\ lines[1] = <<"---">>
        closes == {k \in 2..Len(lines) : lines[k] = <<"---">>}
        close == CHOOSE k \in closes : \A j \in closes : k <= j
        from == IF opened /\ closes # {} THEN close + 1 ELSE IF opened THEN 2 ELSE 1
    IN  {RealLines(lines, from, rules, setext) : rules \in BOOLEAN, setext \in BOOLEAN}
        \cup (IF opened /\ closes = {} THEN {0} ELSE {})

\* the numbers of lines a file is listed under in the result of the finder
ListedUnder(result, f) == {result[i][1] : i \in {j \in DOMAIN result : f \in Range(result[j][2])}}

\* C21: find_poor_content_files reports a note if and only if its content
\* holds the topic flag and it has fewer than MIN_CONTENT_LINES lines of real
\* content, the lines that are not empty, not headings and not of the front
\* matter; the note is listed under that number of lines, and once.
C21_PoorIffFewRealLines ==
    poorOut.ran =>
        \A f \in FileNames :
            (srcDir[f].exists /\ srcDir[f].readable) =>
                LET content == Content(srcDir[f])
                    counts == RealContentCounts(content)
                    listed == ListedUnder(poorOut.result, f)
                IN  /\ listed # {} =>
                          /\ IsIn(TopicFlag, content)
                          /\ Cardinality(listed) = 1
                          /\ listed \subseteq counts
                          /\ \A n \in listed : n < MIN_CONTENT_LINES
                    /\ listed = {} =>
                          \/ ~IsIn(TopicFlag, content)
                          \/ \E n \in counts : n >= MIN_CONTENT_LINES

----------------------------------------------------------------------------
(* Claims about the order in which the scan visits the files (ScanSpec) *)

\* what scan_notes returns for the directory of the latest scan when the
\* globs yield its files in the given order
ScanIn(order, seed) ==
    ScanReturn(ScanAccumulate(NewAccumulators, srcDirExists, lastScan.dir, order), seed)

\* a == b for two dicts: the same keys with equal values, in whatever order
\* the keys were inserted
SameDict(a, b) ==
    /\ DictKeys(a) = DictKeys(b)
    /\ \A k \in DictKeys(a) : DictGet(a, k, <<>>) = DictGet(b, k, <<>>)

\* C22: the scan result does not rely on the order in which the files are
\* visited: for any two visit orders of the same note files scan_notes returns
\* the same existing_notes, all_links, broken_links and files_linking_to.
C22_ScanOrderIndependent ==
    lastScan.ran =>
        \A order \in Perms(Present(lastScan.dir)), seed \in HashSeeds :
            LET g == lastScan.graph
                h == ScanIn(order, seed)
            IN  /\ SameDict(g.existing_notes, h.existing_notes)
                /\ SameDict(g.all_links, h.all_links)
                /\ SameDict(g.broken_links, h.broken_links)
                /\ SameDict(g.files_linking_to, h.files_linking_to)

\* d and e hold the same keys, and under each key the same distinct texts,
\* each once
SameTexts(d, e) ==
    /\ DictKeys(d) = DictKeys(e)
    /\ \A k \in DictKeys(d) :
          /\ Range(DictGet(d, k, <<>>)) = Range(DictGet(e, k, <<>>))
          /\ Len(DictGet(d, k, <<>>)) = Len(DictGet(e, k, <<>>))

\* the last note of a visit order that can be read and declares title t
LastDeclaring(dir, order, t) ==
    LET at == {i \in DOMAIN order : dir[order[i]].readable /\ DeclaredTitle(dir[order[i]]) = t}
    IN  order[CHOOSE i \in at : \A j \in at : j <= i]

\* C22, amended: for any two visit orders of the same note files the four
\* maps have the same keys; files_linking_to is the same; all_links and
\* broken_links hold the same distinct texts under each target, in an order
\* that may differ; existing_notes maps a title to the last note of the order
\* that declares it, and so to the same note in both orders when one note
\* alone declares the title.
C22_SameUpToOrderAndCollisions ==
    lastScan.ran =>
        \A order \in Perms(Present(lastScan.dir)), seed \in HashSeeds :
            LET g == lastScan.graph
                h == ScanIn(order, seed)
                d == lastScan.dir
            IN  /\ SameDict(g.files_linking_to, h.files_linking_to)
                /\ SameTexts(g.all_links, h.all_links)
                /\ SameTexts(g.broken_links, h.broken_links)
                /\ DictKeys(g.existing_notes) = DictKeys(h.existing_notes)
                /\ \A t \in DictKeys(g.existing_notes) :
                      /\ DictGet(g.existing_notes, t, "") = LastDeclaring(d, lastScan.order, t)
                      /\ DictGet(h.existing_notes, t, "") = LastDeclaring(d, order, t)
                      /\ Cardinality({f \in Readable(d) : DeclaredTitle(d[f]) = t}) = 1 =>
                            DictGet(g.existing_notes, t, "") = DictGet(h.existing_notes, t, "")

\* two notes that declare the same title and mention the same target under
\* two texts: the other visit order gives another existing_notes and the
\* texts in another order
C22_Witness ==
    /\ lastScan.ran
    /\ Len(lastScan.order) = 2
    /\ LET g == lastScan.graph
           h == ScanIn(<<lastScan.order[2], lastScan.order[1]>>, 0)
       IN  /\ ~SameDict(g.existing_notes, h.existing_notes)
           /\ ~SameDict(g.all_links, h.all_links)
           /\ SameTexts(g.all_links, h.all_links)
           /\ SameDict(g.files_linking_to, h.files_linking_to)

\* C23: a link whose target names a file that is in the directory but cannot
\* be read counts as existing: the target is a key of all_links and of
\* files_linking_to, with the texts and the sources of the notes that were
\* read, and never a key of broken_links; the file that cannot be read gives
\* no title and no mention, being neither a value of existing_notes nor a
\* source in files_linking_to.
C23_UnreadableTargetExists ==
    lastScan.ran =>
        LET g == lastScan.graph
            d == lastScan.dir
            mentions == Mentions(d, lastScan.order)
        IN  \A t \in Present(d) \ Readable(d) :
                /\ ~DictHas(g.broken_links, t)
                /\ TextsFor(mentions, t) # <<>> =>
                      /\ Range(DictGet(g.all_links, t, <<>>)) = Range(TextsFor(mentions, t))
                      /\ Range(DictGet(g.files_linking_to, t, <<>>)) = SourcesOf(mentions, t)
                /\ TextsFor(mentions, t) = <<>> =>
                      ~DictHas(g.all_links, t) /\ ~DictHas(g.files_linking_to, t)
                /\ t \notin Range(DictValues(g.existing_notes))
                /\ \A i \in DOMAIN g.files_linking_to : t \notin Range(g.files_linking_to[i][2])
                /\ \A l \in Range(d[t].links) :
                      SourcesOf(mentions, TargetOf(l)) = {} => ~DictHas(g.all_links, TargetOf(l))

\* b.md cannot be read, though it declares a title and links to c.md; A.md
\* links to b.md: b.md is in all_links and in files_linking_to, broken_links
\* is empty, and neither the title nor c.md is in the graph
C23_Witness ==
    /\ lastScan.ran
    /\ Present(lastScan.dir) = FileNames
    /\ lastScan.dir["A.md"].readable
    /\ ~lastScan.dir["b.md"].readable
    /\ DeclaredTitle(lastScan.dir["b.md"]) # ""
    /\ \E l \in Range(lastScan.dir["b.md"].links) : TargetOf(l) = "c.md"
    /\ DictKeys(lastScan.graph.all_links) = {"b.md"}
    /\ DictGet(lastScan.graph.files_linking_to, "b.md", <<>>) = <<"A.md">>
    /\ lastScan.graph.broken_links = <<>>
    /\ lastScan.graph.existing_notes = <<>>

----------------------------------------------------------------------------
(* Claims about the two reports (ReportSpec) *)

\* C24: a run of the broken-links filter, and likewise of the poor-content
\* finder, that finds no item writes nothing: the report an earlier run left
\* keeps its content, and goes on listing items that are no more.
C24_ZeroFoundWritesNothing ==
    [][ /\ (filterRun' # filterRun /\ filterRun'.total_links = 0) =>
               brokenReport' = brokenReport
        /\ (poorOut' # poorOut /\ poorOut'.total_files = 0) =>
               poorReport' = poorReport ]_vars

\* a note with the flag and a link to a missing file was reported by both
\* scripts, then deleted; the builder ran again, and both scripts found
\* nothing: both reports still list what they listed
C24_Witness ==
    /\ Present(srcDir) = {}
    /\ lastScan.ran /\ lastScan.dir = srcDir
    /\ filterRun.ran /\ filterRun.built /\ filterRun.total_links = 0
    /\ filterRun.unchanged
    /\ brokenReport.exists
    /\ \E i \in DOMAIN brokenReport.data : brokenReport.data[i][1] = "broken"
    /\ poorOut.ran /\ poorOut.total_files = 0
    /\ poorReport.exists
    /\ \E i \in DOMAIN poorReport.data : poorReport.data[i] = <<"file", "A.md">>

====
